---- MODULE Spec2Model ----
(***************************************************************************)
(* Synchronization core of the Sanity note server: the CRDT merge paths    *)
(* (batch POST /sync/crdt, streaming Update and SyncRequest frames), the   *)
(* metadata writers, the folder tree and the fan-out hub with its          *)
(* streaming sessions.                                                     *)
(*                                                                         *)
(* The database is PostgreSQL at READ COMMITTED: a statement reads the     *)
(* latest committed rows plus the transaction's own writes; a row written  *)
(* (or locked FOR UPDATE) by a transaction stays locked until it commits   *)
(* or rolls back; an INSERT .. ON CONFLICT on a key another transaction    *)
(* has inserted but not committed waits for that transaction.  now() is    *)
(* the start time of the transaction.                                      *)
(***************************************************************************)
EXTENDS Integers, Sequences, FiniteSets, TLC

(***************************************************************************)
(* Bounds of the model.                                                    *)
(***************************************************************************)
\* transactions (and autocommit statements) one behaviour may begin
MaxMergeTxns == 2
MaxSyncTxns == 3
MaxHubTxns == 2
MaxRestTxns == 4
\* the channel capacity, scaled down from broadcast::channel(1024)
HubCapacity == 1
\* largest timestamp a client puts in a metadata row
MaxStamp == 2

NoteIds == {"n1", "n2"}
FolderIds == {"f1", "f2"}
Sessions == {"A", "B"}
Batches == {"r1", "r2"}
Workers == Sessions \cup Batches
ClientIds == {"c1", "c2", "srv"}

(***************************************************************************)
(* The CRDT engine (yrs), as the handlers use it.  A document is the set   *)
(* of operations it holds; an operation is <<client, clock>>.  Updates are *)
(* causally complete: they carry the operations their own depend on.       *)
(***************************************************************************)
\* <<"srv", 1>> is the paragraph POST /notes seeds a document with
Ops == {<<"c1", 1>>, <<"c1", 2>>, <<"c2", 1>>, <<"srv", 1>>}

ZeroSV == [c \in ClientIds |-> 0]

\* doc.transact().state_vector(): per client, how many of its operations the document holds
StateVectorOf(ops) == [c \in ClientIds |-> Cardinality({o \in ops : o[1] = c})]

\* the operations a state vector covers
Covered(sv) == {o \in Ops : o[2] <= sv[o[1]]}

\* a faulty diff: the first operation beyond the remote vector is left out
EncodeDiffSkipsOne(ops, sv) == {o \in ops : o[2] > sv[o[1]] + 1}

\* txn.encode_diff_v1(&remote_sv): the operations beyond the remote vector
EncodeDiff(ops, sv) == {o \in ops : o[2] > sv[o[1]]}

\* txn.apply_update(update)
ApplyUpdate(doc, upd) == doc \cup upd

(***************************************************************************)
(* Byte blobs and their text encodings.                                    *)
(***************************************************************************)
UpdBlob(ops) == [kind |-> "upd", ops |-> ops, sv |-> ZeroSV]
SvBlob(sv) == [kind |-> "sv", ops |-> {}, sv |-> sv]
JunkBlob == [kind |-> "junk", ops |-> {}, sv |-> ZeroSV]

\* Update::decode_v1(..).is_ok()
DecodesAsUpdate(blob) == blob.kind = "upd"
\* StateVector::decode_v1(..).is_ok()
DecodesAsSV(blob) == blob.kind = "sv"

\* STANDARD.encode / STANDARD.decode
B64Encode(blob) == [b64 |-> TRUE, blob |-> blob]
NotBase64 == [b64 |-> FALSE, blob |-> JunkBlob]
B64Ok(s) == s.b64
B64Decode(s) == s.blob

\* a note id as text: Uuid::to_string writes the lower-case form, parse accepts both
IdString(n, form) == [uuid |-> TRUE, id |-> n, form |-> form]
NotUuid == [uuid |-> FALSE, id |-> "n1", form |-> "junk"]
ParseOk(s) == s.uuid
ParseUuid(s) == s.id
UuidToString(n) == IdString(n, "lower")

(***************************************************************************)
(* Rows.  A table maps a key to the set of its rows: {} or one row.        *)
(***************************************************************************)
\* a faulty merge that stores the state vector of an empty document
CrdtRowNoVector(ops, sv, at) ==
    [ydoc_state |-> UpdBlob(ops), state_vector |-> SvBlob(ZeroSV), updated_at |-> at]

CrdtRow(ops, sv, at) == [ydoc_state |-> UpdBlob(ops), state_vector |-> SvBlob(sv), updated_at |-> at]

NoteRow(id, title, content, folder, deleted, canvas, at) ==
    [id |-> id, title |-> title, content |-> content, folder_id |-> folder,
     is_deleted |-> deleted, is_canvas |-> canvas, updated_at |-> at]

FolderRow(parent, created, at, deleted) ==
    [parent_id |-> parent, created_at |-> created, updated_at |-> at, is_deleted |-> deleted]

RowOf(cell) == CHOOSE r \in cell : TRUE

NoMeta == NoteRow("n1", "", "", "none", FALSE, FALSE, 0)

\* serde_json::to_string(&meta) / serde_json::from_str::<NoteMetadata>
MetaJson(meta) == [json |-> TRUE, meta |-> meta]
NotJson == [json |-> FALSE, meta |-> NoMeta]

VARIABLES
    clock,      \* wall clock of the database server
    crdt,       \* crdt_states: note id -> {} or {row}, committed
    notes,      \* notes: note id -> {} or {row}, committed
    folders,    \* folders: folder id -> {} or {row}, committed
    rowLock,    \* crdt_states row locks: note id -> {} or {worker}
    noteLock,   \* notes row locks: note id -> {} or {worker}
    pc,         \* worker -> position in its handler
    job,        \* worker -> the merge it is running
    txn,        \* worker -> its open transaction
    breq,       \* worker -> the sync request it is serving (or served last)
    todo,       \* worker -> keys of breq.updates not yet pushed
    resp,       \* worker -> the response to its last sync request
    hubLog,     \* every message sent on the SyncHub channel, in order
    sstate,     \* session -> "new" | "active" | "closed"
    subs,       \* session -> subscribed_notes
    sublog,     \* history: session -> the Subscribe and Unsubscribe frames it has sent
    rx,         \* session -> number of hub messages its receiver is past
    wpc,        \* session -> writer task: "select" | "send" | "resp_only" | "done"
    out,        \* session -> positions in hubLog of the messages written to the peer socket
    respQ,      \* session -> local responses waiting in response_rx
    acked,      \* history: note id -> operations of the updates whose merge committed
    lww,        \* history: note id -> the metadata writes with the greatest timestamp so far
    last,       \* history: the REST request that completed last
    legacy,     \* history: the last /sync or /sync/folders request and its response
    store       \* crdt_states of the client-side store: note id -> {} or {row}

db == <<crdt, notes, folders>>
locks == <<rowLock, noteLock>>
work == <<pc, job, txn, breq, todo, resp>>
sess == <<sstate, subs, sublog>>
wr == <<rx, wpc, out, respQ>>
hist == <<acked, lww, last, legacy, store>>
vars == <<clock, db, locks, work, hubLog, sess, wr, hist>>

NoJob == [note |-> "n1", idstr |-> NotUuid, payload |-> NotBase64, existing |-> {}]
NoTxn == [open |-> FALSE, now |-> 0, aborted |-> FALSE,
          writes |-> [n \in NoteIds |-> {}], mwrites |-> [n \in NoteIds |-> {}]]
EmptyMap == [k \in {} |-> NotBase64]
NoReq == [state_vectors |-> EmptyMap, updates |-> EmptyMap, metadata |-> <<>>]
\* what the tables hold for a client: documents and state vectors, and the notes rows
Stored(docs, rows) ==
    [docs |-> [n \in NoteIds |-> {[ydoc_state |-> x.ydoc_state, state_vector |-> x.state_vector] : x \in docs[n]}],
     rows |-> rows]
NoDb == Stored([n \in NoteIds |-> {}], [n \in NoteIds |-> {}])
\* seen, before, after, failed: history fields (the documents the answer was computed from,
\* the tables when the request came in and when its handler returned, and the step at
\* which the handler returned early)
NoResp == [status |-> 0, updates |-> EmptyMap, metadata |-> {}, seen |-> [n \in NoteIds |-> {}],
           before |-> NoDb, after |-> NoDb, failed |-> "none"]
NoLast == [op |-> "none", id |-> "none", status |-> 0, at |-> 0]

\* no /sync or /sync/folders request yet.  since: NoSince when the request has none;
\* pushed and pulled hold note rows (/sync) or folder entries (/sync/folders)
NoSince == 0 - 1
NoLegacy == [op |-> "none", status |-> 0, since |-> NoSince, known |-> {},
             notes |-> <<>>, folders |-> <<>>, pulledNotes |-> {}, pulledFolders |-> {}]

\* history of a session's subscription frames.  want: the ids it sent Subscribe for and
\* has not since sent Unsubscribe for; first[n]: the number of hub messages published
\* before its first Unsubscribe{n}; open[n]: the same for its latest Unsubscribe{n}, as
\* long as no Subscribe{n} followed it (NoFrame: there is none)
NoFrame == 0 - 1
NoSubLog == [want |-> {}, first |-> [n \in NoteIds |-> NoFrame], open |-> [n \in NoteIds |-> NoFrame]]

Init ==
    /\ clock = 1
    /\ crdt = [n \in NoteIds |-> {}]
    /\ notes = [n \in NoteIds |-> {}]
    /\ folders = [f \in FolderIds |-> {}]
    /\ rowLock = [n \in NoteIds |-> {}]
    /\ noteLock = [n \in NoteIds |-> {}]
    /\ pc = [w \in Workers |-> "idle"]
    /\ job = [w \in Workers |-> NoJob]
    /\ txn = [w \in Workers |-> NoTxn]
    /\ breq = [w \in Workers |-> NoReq]
    /\ todo = [w \in Workers |-> {}]
    /\ resp = [w \in Workers |-> NoResp]
    /\ hubLog = <<>>
    /\ sstate = [s \in Sessions |-> "new"]
    /\ subs = [s \in Sessions |-> {}]
    /\ sublog = [s \in Sessions |-> NoSubLog]
    /\ rx = [s \in Sessions |-> 0]
    /\ wpc = [s \in Sessions |-> "select"]
    /\ out = [s \in Sessions |-> {}]
    /\ respQ = [s \in Sessions |-> <<>>]
    /\ acked = [n \in NoteIds |-> {}]
    /\ lww = [n \in NoteIds |-> {}]
    /\ last = NoLast
    /\ legacy = NoLegacy
    /\ store = [n \in NoteIds |-> {}]

(***************************************************************************)
(* Transactions.  The clock advances with every request, frame and         *)
(* statement, so every transaction has a now() of its own.                 *)
(***************************************************************************)
\* pool.begin()
BeginTxn == [open |-> TRUE, now |-> clock, aborted |-> FALSE,
             writes |-> [n \in NoteIds |-> {}], mwrites |-> [n \in NoteIds |-> {}]]

\* a faulty read: the statement does not see what its own transaction wrote
VisibleCommitted(w, n) == crdt[n]

\* what a statement of worker w reads in crdt_states: its own write, else the committed row
Visible(w, n) == IF txn[w].writes[n] # {} THEN txn[w].writes[n] ELSE crdt[n]

\* what a statement of worker w reads in notes
VisibleNote(w, n) == IF txn[w].mwrites[n] # {} THEN txn[w].mwrites[n] ELSE notes[n]

\* the crdt_states row lock of n is free for w
LockFree(w, n) == rowLock[n] \subseteq {w}

\* the notes row lock of n is free for w
NoteLockFree(w, n) == noteLock[n] \subseteq {w}

\* row locks after w's transaction ended
Released(w) == [n \in NoteIds |-> rowLock[n] \ {w}]
ReleasedNotes(w) == [n \in NoteIds |-> noteLock[n] \ {w}]

\* the tables after w's transaction committed
Committed(w) == [n \in NoteIds |-> IF txn[w].writes[n] # {} THEN txn[w].writes[n] ELSE crdt[n]]
CommittedNotes(w) == [n \in NoteIds |-> IF txn[w].mwrites[n] # {} THEN txn[w].mwrites[n] ELSE notes[n]]

\* operations an update blob contributes once merged
OpsOf(blob) == IF DecodesAsUpdate(blob) THEN blob.ops ELSE {}

(***************************************************************************)
(* The hub.  hubLog is the channel's history; a receiver more than         *)
(* HubCapacity messages behind has lost the oldest ones.                   *)
(***************************************************************************)
\* the sessions whose subscription set holds the note an id names
SubscribersOf(idstr) ==
    IF ParseOk(idstr)
    THEN {s \in Sessions : sstate[s] = "active" /\ ParseUuid(idstr) \in subs[s]}
    ELSE {}

\* from, committed, subscribed: history fields (who submitted the update, whether its
\* merge had been committed when the message was sent, and who was subscribed then)
UpdateMsg(idstr, payload, from, committed) ==
    [type |-> "update", note_id |-> idstr, payload |-> payload, meta |-> NotJson,
     from |-> from, committed |-> committed, subscribed |-> SubscribersOf(idstr)]

MetadataMsg(json, from) ==
    [type |-> "note_metadata", note_id |-> NotUuid, payload |-> NotBase64, meta |-> json,
     from |-> from, committed |-> TRUE, subscribed |-> {}]

\* a faulty hub that sends every message twice
BroadcastTwice(msg) == Append(Append(hubLog, msg), msg)

\* SyncHub::broadcast: tx.send never waits for a receiver
Broadcast(msg) == Append(hubLog, msg)

\* SyncHub::broadcast_update: the update re-encoded, the id in canonical form
BroadcastUpdate(n, blob, from, committed) ==
    Append(hubLog, UpdateMsg(UuidToString(n), B64Encode(blob), from, committed))

(***************************************************************************)
(* Streaming session: connection, subscriptions.                           *)
(***************************************************************************)
\* handle_socket up to the reader loop: hub.subscribe(), an empty subscription set
Connect(s) ==
    /\ sstate[s] = "new"
    /\ sstate' = [sstate EXCEPT ![s] = "active"]
    /\ rx' = [rx EXCEPT ![s] = Len(hubLog)]
    /\ subs' = [subs EXCEPT ![s] = {}]
    /\ UNCHANGED <<clock, db, locks, work, hubLog, wpc, out, respQ, sublog, hist>>

\* WsMessage::Subscribe (sublog is left to the specification that runs the frame)
Subscribe(s, idstr) ==
    /\ sstate[s] = "active" /\ pc[s] = "idle"
    /\ subs' = [subs EXCEPT ![s] = IF ParseOk(idstr) THEN @ \cup {ParseUuid(idstr)} ELSE @]
    /\ UNCHANGED <<clock, db, locks, work, hubLog, sstate, wr, hist>>

\* a faulty Unsubscribe that leaves the subscription set as it is
UnsubscribeKeeps(s, idstr) ==
    /\ sstate[s] = "active" /\ pc[s] = "idle"
    /\ UNCHANGED <<clock, db, locks, work, hubLog, sstate, subs, wr, hist>>

\* WsMessage::Unsubscribe (sublog is left to the specification that runs the frame)
Unsubscribe(s, idstr) ==
    /\ sstate[s] = "active" /\ pc[s] = "idle"
    /\ subs' = [subs EXCEPT ![s] = IF ParseOk(idstr) THEN @ \ {ParseUuid(idstr)} ELSE @]
    /\ UNCHANGED <<clock, db, locks, work, hubLog, sstate, wr, hist>>

\* the reader loop ends (Close frame or socket error) between two frames: send_task.abort(),
\* and the receiver, the subscription set and the response channel are dropped
Close(s) ==
    /\ sstate[s] = "active" /\ pc[s] = "idle"
    /\ sstate' = [sstate EXCEPT ![s] = "closed"]
    /\ wpc' = [wpc EXCEPT ![s] = "done"]
    /\ subs' = [subs EXCEPT ![s] = {}]
    /\ rx' = [rx EXCEPT ![s] = 0]
    /\ respQ' = [respQ EXCEPT ![s] = <<>>]
    /\ UNCHANGED <<clock, db, locks, work, hubLog, out, sublog, hist>>

\* a faulty reader loop: a text frame that is no known message ends the session
BadFrameCloses(s) ==
    /\ sstate[s] = "active" /\ pc[s] = "idle"
    /\ sstate' = [sstate EXCEPT ![s] = "closed"]
    /\ wpc' = [wpc EXCEPT ![s] = "done"]
    /\ last' = [op |-> "bad_frame", id |-> s, status |-> 0, at |-> clock]
    /\ clock' = clock + 1
    /\ UNCHANGED <<db, locks, work, hubLog, subs, sublog, rx, out, respQ, acked, lww, legacy, store>>

\* a text frame that serde_json::from_str does not accept as a WsMessage: `continue`
\* (last: history of the frame having been read)
BadFrame(s) ==
    /\ sstate[s] = "active" /\ pc[s] = "idle"
    /\ last' = [op |-> "bad_frame", id |-> s, status |-> 0, at |-> clock]
    /\ clock' = clock + 1
    /\ UNCHANGED <<db, locks, work, hubLog, sess, wr, acked, lww, legacy, store>>

(***************************************************************************)
(* Streaming Update frame: one merge in its own transaction.               *)
(***************************************************************************)
\* a faulty merge: operations the stored document already holds are taken out again
StreamMergeDropsKnown(existing, blob) ==
    LET base == IF existing # {} /\ DecodesAsUpdate(RowOf(existing).ydoc_state)
                THEN RowOf(existing).ydoc_state.ops ELSE {}
    IN  IF DecodesAsUpdate(blob) THEN (base \ blob.ops) \cup (blob.ops \ base) ELSE base

\* Doc::new(); apply the stored state if it decodes; apply the update if it decodes
StreamMerge(existing, blob) ==
    LET base == IF existing # {} /\ DecodesAsUpdate(RowOf(existing).ydoc_state)
                THEN ApplyUpdate({}, RowOf(existing).ydoc_state.ops) ELSE {}
    IN  IF DecodesAsUpdate(blob) THEN ApplyUpdate(base, blob.ops) ELSE base

\* the frame is read; id and base64 are checked; pool.begin()
UpdateFrame(s, idstr, payload, beginOk) ==
    /\ sstate[s] = "active" /\ pc[s] = "idle"
    /\ IF ParseOk(idstr) /\ B64Ok(payload) /\ beginOk
       THEN /\ pc' = [pc EXCEPT ![s] = "upd_select"]
            /\ job' = [job EXCEPT ![s] = [note |-> ParseUuid(idstr), idstr |-> idstr,
                                          payload |-> payload, existing |-> {}]]
            /\ txn' = [txn EXCEPT ![s] = BeginTxn]
       ELSE UNCHANGED <<pc, job, txn>>
    /\ clock' = clock + 1
    /\ UNCHANGED <<db, locks, breq, todo, resp, hubLog, sess, wr, hist>>

\* SELECT ydoc_state .. FOR UPDATE: locks the row when there is one; an error reads as None
UpdateSelect(s, dbOk) ==
    /\ pc[s] = "upd_select"
    /\ LET n == job[s].note IN
       IF dbOk
       THEN /\ crdt[n] # {} => LockFree(s, n)
            /\ rowLock' = [rowLock EXCEPT ![n] = IF crdt[n] # {} THEN {s} ELSE @]
            /\ job' = [job EXCEPT ![s].existing = crdt[n]]
            /\ UNCHANGED txn
       ELSE /\ txn' = [txn EXCEPT ![s].aborted = TRUE]
            /\ UNCHANGED <<rowLock, job>>
    /\ pc' = [pc EXCEPT ![s] = "upd_upsert"]
    /\ UNCHANGED <<clock, db, noteLock, breq, todo, resp, hubLog, sess, wr, hist>>

\* INSERT .. ON CONFLICT (note_id) DO UPDATE with the merged state; the result is dropped
UpdateUpsert(s, dbOk) ==
    /\ pc[s] = "upd_upsert"
    /\ LET n == job[s].note
           merged == StreamMerge(job[s].existing, B64Decode(job[s].payload))
       IN
       IF dbOk /\ ~txn[s].aborted
       THEN /\ LockFree(s, n)
            /\ rowLock' = [rowLock EXCEPT ![n] = {s}]
            /\ txn' = [txn EXCEPT ![s].writes[n] =
                          {CrdtRow(merged, StateVectorOf(merged), txn[s].now)}]
       ELSE /\ txn' = [txn EXCEPT ![s].aborted = TRUE]
            /\ UNCHANGED rowLock
    /\ pc' = [pc EXCEPT ![s] = "upd_commit"]
    /\ UNCHANGED <<clock, db, noteLock, job, breq, todo, resp, hubLog, sess, wr, hist>>

\* tx.commit(); on Ok, hub.broadcast of the frame as it came in.  COMMIT of an aborted
\* transaction rolls back, and the driver may or may not report that as an error.
UpdateCommit(s, commitOk) ==
    /\ pc[s] = "upd_commit"
    /\ LET n == job[s].note
           persisted == commitOk /\ ~txn[s].aborted
       IN
       /\ crdt' = IF persisted THEN Committed(s) ELSE crdt
       /\ acked' = IF persisted THEN [acked EXCEPT ![n] = @ \cup OpsOf(B64Decode(job[s].payload))]
                   ELSE acked
       /\ hubLog' = IF commitOk
                    THEN Broadcast(UpdateMsg(job[s].idstr, job[s].payload, s, persisted))
                    ELSE hubLog
    /\ rowLock' = Released(s)
    /\ txn' = [txn EXCEPT ![s] = NoTxn]
    /\ job' = [job EXCEPT ![s] = NoJob]
    /\ pc' = [pc EXCEPT ![s] = "idle"]
    /\ UNCHANGED <<clock, notes, folders, noteLock, breq, todo, resp, sess, wr, lww, last, legacy, store>>

(***************************************************************************)
(* Writer task of a session (send_task).                                   *)
(***************************************************************************)
\* a faulty filter: every update is forwarded, subscribed or not
ShouldSendAll(s, msg) == msg.type \in {"update", "note_metadata"}

\* a faulty filter: no update is forwarded
ShouldSendNone(s, msg) == msg.type = "note_metadata"

\* the filter on a message received from the hub
ShouldSend(s, msg) ==
    CASE msg.type = "update" -> ParseOk(msg.note_id) /\ ParseUuid(msg.note_id) \in subs[s]
      [] msg.type = "note_metadata" -> TRUE
      [] OTHER -> FALSE

\* a faulty channel that keeps every message for every receiver
LaggedNever(s) == FALSE

\* the receiver of s has fallen more than the channel capacity behind
Lagged(s) == Len(hubLog) - rx[s] > HubCapacity

\* select! takes the hub branch: recv() gives the next message, or Err(Lagged), which makes
\* the pattern fail and leaves only the response branch for this round.  The filter reads
\* the subscription set now; the send comes after it, in a step of its own.
WriterRecv(s) ==
    /\ sstate[s] = "active" /\ wpc[s] = "select"
    /\ rx[s] < Len(hubLog)
    /\ IF Lagged(s)
       THEN /\ rx' = [rx EXCEPT ![s] = Len(hubLog) - HubCapacity]
            /\ wpc' = [wpc EXCEPT ![s] = "resp_only"]
       ELSE /\ rx' = [rx EXCEPT ![s] = @ + 1]
            /\ wpc' = [wpc EXCEPT ![s] = IF ShouldSend(s, hubLog[rx[s] + 1]) THEN "send" ELSE @]
    /\ UNCHANGED <<clock, db, locks, work, hubLog, sess, out, respQ, hist>>

\* sender.send(Message::Text(json)) of the message that passed the filter; an error ends
\* the writer task (last: history of the failed send)
WriterSend(s, sendOk) ==
    /\ sstate[s] = "active" /\ wpc[s] = "send"
    /\ IF sendOk
       THEN out' = [out EXCEPT ![s] = @ \cup {rx[s]}] /\ wpc' = [wpc EXCEPT ![s] = "select"]
       ELSE wpc' = [wpc EXCEPT ![s] = "done"] /\ UNCHANGED out
    /\ last' = IF sendOk THEN last ELSE [op |-> "send_failed", id |-> s, status |-> 0, at |-> clock]
    /\ UNCHANGED <<clock, db, locks, work, hubLog, sess, rx, respQ, acked, lww, legacy, store>>

(***************************************************************************)
(* History of the metadata writes: the writes with the greatest timestamp. *)
(***************************************************************************)
LwwAdd(cur, row) ==
    IF cur = {} \/ row.updated_at > RowOf(cur).updated_at THEN {row}
    ELSE IF row.updated_at = RowOf(cur).updated_at THEN cur \cup {row}
    ELSE cur

RECURSIVE LwwAll(_, _, _, _)
LwwAll(cur, metas, n, i) ==
    IF i = 0 THEN cur
    ELSE LET before == LwwAll(cur, metas, n, i - 1)
         IN  IF metas[i].id = n THEN LwwAdd(before, metas[i]) ELSE before

(***************************************************************************)
(* POST /sync/crdt: the whole request in one transaction.                  *)
(***************************************************************************)
\* an early return: the transaction is dropped (rolled back), status is the HTTP status
BatchFail(r, status) ==
    /\ rowLock' = Released(r)
    /\ noteLock' = ReleasedNotes(r)
    /\ txn' = [txn EXCEPT ![r] = NoTxn]
    /\ job' = [job EXCEPT ![r] = NoJob]
    /\ todo' = [todo EXCEPT ![r] = {}]
    /\ resp' = [resp EXCEPT ![r] = [NoResp EXCEPT !.status = status, !.before = resp[r].before,
                                                   !.after = Stored(crdt, notes), !.failed = pc[r]]]
    /\ pc' = [pc EXCEPT ![r] = "idle"]

\* where the handler goes after the push loop's current entry
AfterPush(left, req) ==
    IF left # {} THEN "b_push" ELSE IF Len(req.metadata) > 0 THEN "b_meta" ELSE "b_respond"

\* state.pool.begin()
BatchBegin(r, req, beginOk) ==
    /\ pc[r] = "idle"
    /\ breq' = [breq EXCEPT ![r] = req]
    /\ IF beginOk
       THEN /\ txn' = [txn EXCEPT ![r] = BeginTxn]
            /\ todo' = [todo EXCEPT ![r] = DOMAIN req.updates]
            /\ resp' = [resp EXCEPT ![r] = [NoResp EXCEPT !.before = Stored(crdt, notes)]]
            /\ pc' = [pc EXCEPT ![r] = AfterPush(DOMAIN req.updates, req)]
       ELSE /\ resp' = [resp EXCEPT ![r] = [NoResp EXCEPT !.status = 500, !.before = Stored(crdt, notes),
                                                       !.after = Stored(crdt, notes), !.failed = "begin"]]
            /\ UNCHANGED <<txn, todo, pc>>
    /\ clock' = clock + 1
    /\ UNCHANGED <<db, locks, job, hubLog, sess, wr, hist>>

\* the push loop takes an entry of payload.updates (a HashMap: any order), parses the id,
\* decodes the base64 and reads the stored state with a plain SELECT
BatchPushSelect(r, k, dbOk) ==
    /\ pc[r] = "b_push"
    /\ k \in todo[r]
    /\ IF ~ParseOk(k) \/ ~B64Ok(breq[r].updates[k])
       THEN BatchFail(r, 400)
       ELSE IF ~dbOk
       THEN BatchFail(r, 500)
       ELSE /\ job' = [job EXCEPT ![r] = [note |-> ParseUuid(k), idstr |-> k,
                                          payload |-> breq[r].updates[k],
                                          existing |-> Visible(r, ParseUuid(k))]]
            /\ pc' = [pc EXCEPT ![r] = "b_upsert"]
            /\ UNCHANGED <<locks, txn, todo, resp>>
    /\ UNCHANGED <<clock, db, breq, hubLog, sess, wr, hist>>

\* a faulty merge: the stored document is not loaded, the update replaces it
BatchMergeReplaces(existing, blob) ==
    IF DecodesAsUpdate(blob) THEN ApplyUpdate({}, blob.ops) ELSE {}

\* Doc::new(); apply the stored state if it decodes; apply the update if it decodes
BatchMerge(existing, blob) ==
    LET base == IF existing # {} /\ DecodesAsUpdate(RowOf(existing).ydoc_state)
                THEN ApplyUpdate({}, RowOf(existing).ydoc_state.ops) ELSE {}
    IN  IF DecodesAsUpdate(blob) THEN ApplyUpdate(base, blob.ops) ELSE base

\* a faulty upsert: the statement runs on the pool and is committed at once
BatchPushUpsertOnPool(r, dbOk) ==
    /\ pc[r] = "b_upsert"
    /\ LET n == job[r].note
           blob == B64Decode(job[r].payload)
           merged == BatchMerge(job[r].existing, blob)
           left == todo[r] \ {job[r].idstr}
       IN
       IF ~dbOk
       THEN BatchFail(r, 500) /\ UNCHANGED <<hubLog, crdt>>
       ELSE /\ LockFree(r, n)
            /\ crdt' = [crdt EXCEPT ![n] = {CrdtRow(merged, StateVectorOf(merged), txn[r].now)}]
            /\ hubLog' = BroadcastUpdate(n, blob, r, FALSE)
            /\ todo' = [todo EXCEPT ![r] = left]
            /\ job' = [job EXCEPT ![r] = NoJob]
            /\ pc' = [pc EXCEPT ![r] = AfterPush(left, breq[r])]
            /\ UNCHANGED <<locks, txn, resp>>
    /\ UNCHANGED <<clock, notes, folders, breq, sess, wr, hist>>

\* the upsert inside the request's transaction, then hub.broadcast_update, before any commit
BatchPushUpsert(r, dbOk) ==
    /\ pc[r] = "b_upsert"
    /\ LET n == job[r].note
           blob == B64Decode(job[r].payload)
           merged == BatchMerge(job[r].existing, blob)
           left == todo[r] \ {job[r].idstr}
       IN
       IF ~dbOk
       THEN BatchFail(r, 500) /\ UNCHANGED hubLog
       ELSE /\ LockFree(r, n)
            /\ rowLock' = [rowLock EXCEPT ![n] = {r}]
            /\ txn' = [txn EXCEPT ![r].writes[n] =
                          {CrdtRow(merged, StateVectorOf(merged), txn[r].now)}]
            /\ hubLog' = BroadcastUpdate(n, blob, r, FALSE)
            /\ todo' = [todo EXCEPT ![r] = left]
            /\ job' = [job EXCEPT ![r] = NoJob]
            /\ pc' = [pc EXCEPT ![r] = AfterPush(left, breq[r])]
            /\ UNCHANGED <<noteLock, resp>>
    /\ UNCHANGED <<clock, db, breq, sess, wr, hist>>

\* r is in its upsert, waiting for the row lock that the transaction of w holds
WaitsFor(r, w) == w # r /\ pc[r] = "b_upsert" /\ rowLock[job[r].note] = {w}

\* r and another request wait for each other's row locks: PostgreSQL's deadlock detector
\* fails the upsert of r (deadlock detected), and the handler answers 500
DeadlockAbort(r) ==
    /\ \E w \in Batches : WaitsFor(r, w) /\ WaitsFor(w, r)
    /\ BatchFail(r, 500)
    /\ UNCHANGED <<clock, db, breq, hubLog, sess, wr, hist>>

\* INSERT INTO notes .. ON CONFLICT (id) DO UPDATE .. WHERE notes.updated_at < EXCLUDED.updated_at
UpsertIfNewer(cell, meta) ==
    IF cell = {} \/ RowOf(cell).updated_at < meta.updated_at THEN {meta} ELSE cell

\* the metadata loop: every entry of payload.metadata in turn; dbOk is FALSE when one of
\* the upserts fails, which ends the request
BatchMetadata(r, dbOk) ==
    /\ pc[r] = "b_meta"
    /\ LET metas == breq[r].metadata
           ids == {metas[i].id : i \in DOMAIN metas}
           F[i \in 0..Len(metas)] ==
               IF i = 0 THEN txn[r].mwrites
               ELSE LET m == metas[i]
                        seen == IF F[i - 1][m.id] # {} THEN F[i - 1][m.id] ELSE notes[m.id]
                    IN  [F[i - 1] EXCEPT ![m.id] = UpsertIfNewer(seen, m)]
       IN
       IF ~dbOk
       THEN BatchFail(r, 500)
       ELSE /\ \A n \in ids : NoteLockFree(r, n)
            /\ noteLock' = [n \in NoteIds |-> IF n \in ids THEN {r} ELSE noteLock[n]]
            /\ txn' = [txn EXCEPT ![r].mwrites = F[Len(metas)]]
            /\ pc' = [pc EXCEPT ![r] = "b_respond"]
            /\ UNCHANGED <<rowLock, job, todo, resp>>
    /\ UNCHANGED <<clock, db, breq, hubLog, sess, wr, hist>>

\* the diff loop over payload.state_vectors: an entry under the key as the client wrote it,
\* when the id parses, the base64 decodes, a row exists and both blobs decode
BatchDiffs(r) ==
    LET svs == breq[r].state_vectors
        good == {k \in DOMAIN svs :
                    /\ ParseOk(k) /\ B64Ok(svs[k])
                    /\ Visible(r, ParseUuid(k)) # {}
                    /\ DecodesAsUpdate(RowOf(Visible(r, ParseUuid(k))).ydoc_state)
                    /\ DecodesAsSV(B64Decode(svs[k]))}
    IN  [k \in good |-> B64Encode(UpdBlob(EncodeDiff(RowOf(Visible(r, ParseUuid(k))).ydoc_state.ops,
                                                     B64Decode(svs[k]).sv)))]

\* the notes the client did not list: all rows when it listed none, else those whose id
\* is not among the ids it listed; each under its canonical key unless that key is taken
BatchNewNotes(r, sofar) ==
    LET client_note_ids == {ParseUuid(k) : k \in {x \in DOMAIN breq[r].state_vectors : ParseOk(x)}}
        new_notes == {n \in NoteIds : Visible(r, n) # {} /\ n \notin client_note_ids}
        add == {UuidToString(n) : n \in new_notes} \ DOMAIN sofar
    IN  [k \in DOMAIN sofar \cup add |->
            IF k \in DOMAIN sofar THEN sofar[k]
            ELSE B64Encode(RowOf(Visible(r, ParseUuid(k))).ydoc_state)]

\* client_metadata_map: id -> updated_at, the last entry of an id wins
ClientStamp(metas, id) ==
    LET at == {i \in DOMAIN metas : metas[i].id = id}
    IN  IF at = {} THEN -1 ELSE metas[CHOOSE i \in at : \A j \in at : j <= i].updated_at

\* a faulty filter: a row as old as the client's is returned too
BatchIncludedOrEqual(r) ==
    {n \in NoteIds :
        /\ VisibleNote(r, n) # {}
        /\ \/ ClientStamp(breq[r].metadata, n) = -1
           \/ RowOf(VisibleNote(r, n)).updated_at >= ClientStamp(breq[r].metadata, n)}

\* the rows of notes the response carries
BatchIncluded(r) ==
    {n \in NoteIds :
        /\ VisibleNote(r, n) # {}
        /\ \/ ClientStamp(breq[r].metadata, n) = -1
           \/ RowOf(VisibleNote(r, n)).updated_at > ClientStamp(breq[r].metadata, n)}

\* for an included row whose canonical key is not yet in the response: its stored snapshot
BatchAttach(r, sofar) ==
    LET add == {UuidToString(n) : n \in {x \in BatchIncluded(r) : Visible(r, x) # {}}} \ DOMAIN sofar
    IN  [k \in DOMAIN sofar \cup add |->
            IF k \in DOMAIN sofar THEN sofar[k]
            ELSE B64Encode(RowOf(Visible(r, ParseUuid(k))).ydoc_state)]

\* the reads after the loops, tx.commit() and the response
BatchRespond(r, dbOk, commitOk) ==
    /\ pc[r] = "b_respond"
    /\ IF ~dbOk \/ ~commitOk
       THEN BatchFail(r, 500) /\ UNCHANGED <<db, hist>>
       ELSE /\ resp' = [resp EXCEPT ![r] =
                   [status |-> 200,
                    updates |-> BatchAttach(r, BatchNewNotes(r, BatchDiffs(r))),
                    metadata |-> {RowOf(VisibleNote(r, n)) : n \in BatchIncluded(r)},
                    seen |-> [n \in NoteIds |-> Visible(r, n)],
                    before |-> resp[r].before,
                    after |-> Stored(Committed(r), CommittedNotes(r)),
                    failed |-> "none"]]
            /\ crdt' = Committed(r)
            /\ notes' = CommittedNotes(r)
            /\ acked' = [n \in NoteIds |->
                   acked[n] \cup UNION {OpsOf(B64Decode(breq[r].updates[k])) :
                                           k \in {x \in DOMAIN breq[r].updates : ParseUuid(x) = n}}]
            /\ lww' = [n \in NoteIds |-> LwwAll(lww[n], breq[r].metadata, n, Len(breq[r].metadata))]
            /\ rowLock' = Released(r)
            /\ noteLock' = ReleasedNotes(r)
            /\ txn' = [txn EXCEPT ![r] = NoTxn]
            /\ pc' = [pc EXCEPT ![r] = "idle"]
            /\ UNCHANGED <<folders, job, todo, last>>
    /\ UNCHANGED <<clock, breq, hubLog, sess, wr, legacy, store>>

(***************************************************************************)
(* POST /notes, DELETE /notes/:id.                                         *)
(***************************************************************************)
\* html_to_text on the contents the model posts: tags go, the rest is trimmed
HtmlToText(content) == IF content = "<br>" THEN "" ELSE content

\* the document save_note seeds: one paragraph when the text is not empty
SeedDoc(content) == IF HtmlToText(content) # "" THEN {<<"srv", 1>>} ELSE {}

\* the upsert (updated_at = now(), whatever the client sent), the broadcast of the stored
\* row, and the check whether a document row exists
SaveNote(r, id, title, content, folder, deleted, canvas, dbOk) ==
    /\ pc[r] = "idle"
    /\ clock' = clock + 1
    /\ IF ~dbOk
       THEN /\ last' = [op |-> "save_note", id |-> id, status |-> 500, at |-> clock]
            /\ UNCHANGED <<notes, hubLog, pc, job, lww>>
       ELSE LET row == NoteRow(id, title, content, folder, deleted, canvas, clock) IN
            /\ NoteLockFree(r, id)
            /\ notes' = [notes EXCEPT ![id] = {row}]
            /\ lww' = [lww EXCEPT ![id] = LwwAdd(@, row)]
            /\ hubLog' = Broadcast(MetadataMsg(MetaJson(row), r))
            /\ last' = [op |-> "save_note", id |-> id, status |-> 200, at |-> clock]
            /\ IF content # "" /\ ~canvas /\ crdt[id] = {}
               THEN /\ pc' = [pc EXCEPT ![r] = "n_seed"]
                    /\ job' = [job EXCEPT ![r] = [note |-> id, idstr |-> UuidToString(id),
                                                  payload |-> B64Encode(UpdBlob(SeedDoc(content))),
                                                  existing |-> {}]]
               ELSE UNCHANGED <<pc, job>>
    /\ UNCHANGED <<crdt, folders, locks, txn, breq, todo, resp, sess, wr, acked, legacy, store>>

\* what became of the seeding statement (history): a row was inserted, the conflict
\* left the existing row alone, or the statement failed
SeedOutcome(n, dbOk) == IF ~dbOk THEN 500 ELSE IF crdt[n] = {} THEN 201 ELSE 0

\* a faulty seeding statement: ON CONFLICT (note_id) DO UPDATE
SaveNoteSeedOverwrites(r, dbOk) ==
    /\ pc[r] = "n_seed"
    /\ LET n == job[r].note
           seed == B64Decode(job[r].payload).ops
       IN
       /\ LockFree(r, n)
       /\ crdt' = IF dbOk
                  THEN [crdt EXCEPT ![n] = {CrdtRow(seed, StateVectorOf(seed), clock)}]
                  ELSE crdt
       /\ last' = [op |-> "seed_note", id |-> n, status |-> SeedOutcome(n, dbOk), at |-> clock]
    /\ clock' = clock + 1
    /\ pc' = [pc EXCEPT ![r] = "idle"]
    /\ job' = [job EXCEPT ![r] = NoJob]
    /\ UNCHANGED <<notes, folders, locks, txn, breq, todo, resp, hubLog, sess, wr, acked, lww, legacy, store>>

\* INSERT INTO crdt_states .. ON CONFLICT (note_id) DO NOTHING; the result is dropped
\* (last: history of the statement's outcome)
SaveNoteSeed(r, dbOk) ==
    /\ pc[r] = "n_seed"
    /\ LET n == job[r].note
           seed == B64Decode(job[r].payload).ops
       IN
       /\ LockFree(r, n)
       /\ crdt' = IF dbOk /\ crdt[n] = {}
                  THEN [crdt EXCEPT ![n] = {CrdtRow(seed, StateVectorOf(seed), clock)}]
                  ELSE crdt
       /\ last' = [op |-> "seed_note", id |-> n, status |-> SeedOutcome(n, dbOk), at |-> clock]
    /\ clock' = clock + 1
    /\ pc' = [pc EXCEPT ![r] = "idle"]
    /\ job' = [job EXCEPT ![r] = NoJob]
    /\ UNCHANGED <<notes, folders, locks, txn, breq, todo, resp, hubLog, sess, wr, acked, lww, legacy, store>>

\* UPDATE notes SET is_deleted = true, updated_at = now() .. RETURNING *, then the broadcast
DeleteNote(r, idstr, dbOk) ==
    /\ pc[r] = "idle"
    /\ clock' = clock + 1
    /\ IF ~ParseOk(idstr)
       THEN /\ last' = [op |-> "delete_note", id |-> "none", status |-> 400, at |-> clock]
            /\ UNCHANGED <<notes, hubLog, lww>>
       ELSE LET id == ParseUuid(idstr) IN
            IF ~dbOk
            THEN /\ last' = [op |-> "delete_note", id |-> id, status |-> 500, at |-> clock]
                 /\ UNCHANGED <<notes, hubLog, lww>>
            ELSE IF notes[id] = {}
            THEN /\ last' = [op |-> "delete_note", id |-> id, status |-> 404, at |-> clock]
                 /\ UNCHANGED <<notes, hubLog, lww>>
            ELSE LET row == [RowOf(notes[id]) EXCEPT !.is_deleted = TRUE, !.updated_at = clock] IN
                 /\ NoteLockFree(r, id)
                 /\ notes' = [notes EXCEPT ![id] = {row}]
                 /\ lww' = [lww EXCEPT ![id] = LwwAdd(@, row)]
                 /\ hubLog' = Broadcast(MetadataMsg(MetaJson(row), r))
                 /\ last' = [op |-> "delete_note", id |-> id, status |-> 200, at |-> clock]
    /\ UNCHANGED <<crdt, folders, locks, work, sess, wr, acked, legacy, store>>

\* SELECT .. FROM notes WHERE id = $1: the row whatever its is_deleted, or 404
GetNote(idstr, dbOk) ==
    /\ clock' = clock + 1
    /\ last' = [op |-> "get_note", at |-> clock,
                id |-> IF ParseOk(idstr) THEN ParseUuid(idstr) ELSE "none",
                status |-> IF ~ParseOk(idstr) THEN 400
                           ELSE IF ~dbOk THEN 500
                           ELSE IF notes[ParseUuid(idstr)] = {} THEN 404 ELSE 200]
    /\ UNCHANGED <<db, locks, work, hubLog, sess, wr, acked, lww, legacy, store>>

(***************************************************************************)
(* POST /folders, DELETE /folders/:id.                                     *)
(***************************************************************************)
\* the upsert: a new row, or name, parent_id, updated_at and is_deleted = false over the old
SaveFolder(f, parent, dbOk) ==
    /\ clock' = clock + 1
    /\ IF ~dbOk
       THEN /\ last' = [op |-> "save_folder", id |-> f, status |-> 500, at |-> clock]
            /\ UNCHANGED folders
       ELSE /\ folders' = [folders EXCEPT ![f] =
                   {FolderRow(parent, IF @ = {} THEN clock ELSE RowOf(@).created_at, clock, FALSE)}]
            /\ last' = [op |-> "save_folder", id |-> f, status |-> 200, at |-> clock]
    /\ UNCHANGED <<crdt, notes, locks, work, hubLog, sess, wr, acked, lww, legacy, store>>

\* the rows the recursive query collects from a set of folders: them and their descendants
RECURSIVE Descendants(_)
Descendants(S) ==
    LET more == S \cup {g \in FolderIds : folders[g] # {} /\ RowOf(folders[g]).parent_id \in S}
    IN  IF more = S THEN S ELSE Descendants(more)

Children(f) == {g \in FolderIds : folders[g] # {} /\ RowOf(folders[g]).parent_id = f}

\* WITH RECURSIVE .. UNION ALL never ends when a folder below f is its own descendant
Unbounded(f) == \E g \in Descendants({f}) : g \in Descendants(Children(g))

\* the recursive soft delete of the folders table
DeleteFolder(idstr, dbOk) ==
    /\ clock' = clock + 1
    /\ IF ~ParseOk(idstr)
       THEN /\ last' = [op |-> "delete_folder", id |-> "none", status |-> 400, at |-> clock]
            /\ UNCHANGED folders
       ELSE LET f == ParseUuid(idstr)
                hit == IF folders[f] = {} THEN {} ELSE Descendants({f})
            IN
            IF ~dbOk \/ (hit # {} /\ Unbounded(f))
            THEN /\ last' = [op |-> "delete_folder", id |-> f, status |-> 500, at |-> clock]
                 /\ UNCHANGED folders
            ELSE IF hit = {}
            THEN /\ last' = [op |-> "delete_folder", id |-> f, status |-> 404, at |-> clock]
                 /\ UNCHANGED folders
            ELSE /\ folders' = [g \in FolderIds |->
                        IF g \in hit
                        THEN {[RowOf(folders[g]) EXCEPT !.is_deleted = TRUE, !.updated_at = clock]}
                        ELSE folders[g]]
                 /\ last' = [op |-> "delete_folder", id |-> f, status |-> 200, at |-> clock]
    /\ UNCHANGED <<crdt, notes, locks, work, hubLog, sess, wr, acked, lww, legacy, store>>

(***************************************************************************)
(* The client-side store (SQLite): apply_crdt_update.                      *)
(***************************************************************************)
\* the table after apply_crdt_update: an existing row gets the update as its ydoc_state
\* and keeps its state_vector; a new row gets the update in both columns
ApplyToStore(tab, n, blob, now) ==
    IF tab[n] # {}
    THEN [tab EXCEPT ![n] = {[RowOf(@) EXCEPT !.ydoc_state = blob, !.updated_at = now]}]
    ELSE [tab EXCEPT ![n] = {[ydoc_state |-> blob, state_vector |-> blob, updated_at |-> now]}]

\* Database::apply_crdt_update; dbOk = FALSE: a statement fails, nothing is written
ApplyCrdtUpdate(n, blob, dbOk) ==
    /\ clock' = clock + 1
    /\ store' = IF dbOk THEN ApplyToStore(store, n, blob, clock) ELSE store
    /\ last' = [op |-> "apply_crdt_update", id |-> n, status |-> IF dbOk THEN 200 ELSE 500,
                at |-> clock]
    /\ UNCHANGED <<db, locks, work, hubLog, sess, wr, acked, lww, legacy>>

(***************************************************************************)
(* POST /sync and POST /sync/folders: push with last-writer-wins, then     *)
(* pull, in one transaction.  The rows carry the client's timestamps.      *)
(***************************************************************************)
\* a folder as the endpoint receives and returns it
FolderEntry(id, parent, created, at, deleted) ==
    [id |-> id, parent_id |-> parent, created_at |-> created, updated_at |-> at,
     is_deleted |-> deleted]

EntryOf(tab, f) ==
    FolderEntry(f, RowOf(tab[f]).parent_id, RowOf(tab[f]).created_at,
                RowOf(tab[f]).updated_at, RowOf(tab[f]).is_deleted)

\* pushed_ids
PushedIds(list) == {list[i].id : i \in DOMAIN list}

\* a faulty upsert without the WHERE: the pushed row always wins
UpsertNoteAlways(tab, row) == [tab EXCEPT ![row.id] = {row}]

\* INSERT INTO notes .. ON CONFLICT (id) DO UPDATE SET every column
\* WHERE notes.updated_at < EXCLUDED.updated_at
UpsertNoteIfNewer(tab, row) ==
    IF tab[row.id] = {} \/ RowOf(tab[row.id]).updated_at < row.updated_at
    THEN [tab EXCEPT ![row.id] = {row}]
    ELSE tab

\* a faulty upsert without the WHERE: the pushed folder always wins
UpsertFolderAlways(tab, e) ==
    [tab EXCEPT ![e.id] = {FolderRow(e.parent_id, e.created_at, e.updated_at, e.is_deleted)}]

\* INSERT INTO folders .. ON CONFLICT (id) DO UPDATE SET name, parent_id, updated_at,
\* is_deleted WHERE folders.updated_at < EXCLUDED.updated_at: created_at stays
UpsertFolderIfNewer(tab, e) ==
    IF tab[e.id] = {}
    THEN [tab EXCEPT ![e.id] = {FolderRow(e.parent_id, e.created_at, e.updated_at, e.is_deleted)}]
    ELSE IF RowOf(tab[e.id]).updated_at < e.updated_at
    THEN [tab EXCEPT ![e.id] =
             {FolderRow(e.parent_id, RowOf(@).created_at, e.updated_at, e.is_deleted)}]
    ELSE tab

\* the push loops, in the order of the list
RECURSIVE PushNotes(_, _, _)
PushNotes(tab, list, i) ==
    IF i = 0 THEN tab ELSE UpsertNoteIfNewer(PushNotes(tab, list, i - 1), list[i])

RECURSIVE PushFolders(_, _, _)
PushFolders(tab, list, i) ==
    IF i = 0 THEN tab ELSE UpsertFolderIfNewer(PushFolders(tab, list, i - 1), list[i])

\* SELECT .. FROM notes [WHERE updated_at > $1]
PullNotes(tab, since) ==
    {RowOf(tab[n]) : n \in {m \in NoteIds : tab[m] # {} /\
                               (since = NoSince \/ RowOf(tab[m]).updated_at > since)}}

\* SELECT .. FROM folders [WHERE updated_at > $1], and with a since and known_folder_ids
\* also every folder that is not among them
PullFolders(tab, since, known) ==
    {EntryOf(tab, f) : f \in {g \in FolderIds : tab[g] # {} /\
                                 \/ since = NoSince
                                 \/ RowOf(tab[g]).updated_at > since
                                 \/ (known # {} /\ g \notin known)}}

\* a faulty filter that returns what the client pushed
FilterNothing(all, ids) == all

\* .filter(|n| !pushed_ids.contains(&n.id))
FilterPushed(all, ids) == {r \in all : r.id \notin ids}

\* POST /sync; dbOk = FALSE: a statement or the commit fails, the transaction is dropped
SyncNotes(since, list, dbOk) ==
    /\ clock' = clock + 1
    /\ \A n \in PushedIds(list) : noteLock[n] = {}
    /\ LET pushed == PushNotes(notes, list, Len(list)) IN
       IF dbOk
       THEN /\ notes' = pushed
            /\ lww' = [n \in NoteIds |-> LwwAll(lww[n], list, n, Len(list))]
            /\ legacy' = [NoLegacy EXCEPT !.op = "sync_notes", !.status = 200, !.since = since,
                              !.notes = list,
                              !.pulledNotes = FilterPushed(PullNotes(pushed, since), PushedIds(list))]
       ELSE /\ legacy' = [NoLegacy EXCEPT !.op = "sync_notes", !.status = 500, !.since = since,
                              !.notes = list]
            /\ UNCHANGED <<notes, lww>>
    /\ UNCHANGED <<crdt, folders, locks, work, hubLog, sess, wr, acked, last, store>>

\* POST /sync/folders
SyncFolders(since, known, list, dbOk) ==
    /\ clock' = clock + 1
    /\ LET pushed == PushFolders(folders, list, Len(list)) IN
       IF dbOk
       THEN /\ folders' = pushed
            /\ legacy' = [NoLegacy EXCEPT !.op = "sync_folders", !.status = 200, !.since = since,
                              !.known = known, !.folders = list,
                              !.pulledFolders =
                                  FilterPushed(PullFolders(pushed, since, known), PushedIds(list))]
       ELSE /\ legacy' = [NoLegacy EXCEPT !.op = "sync_folders", !.status = 500, !.since = since,
                              !.known = known, !.folders = list]
            /\ UNCHANGED folders
    /\ UNCHANGED <<crdt, notes, locks, work, hubLog, sess, wr, acked, lww, last, store>>

(***************************************************************************)
(* Streaming NoteMetadata frame.                                           *)
(***************************************************************************)
\* the upsert without a WHERE (its result is dropped), then hub.broadcast of the payload
WsNoteMetadata(s, json, dbOk) ==
    /\ sstate[s] = "active" /\ pc[s] = "idle"
    /\ IF ~json.json
       THEN UNCHANGED <<clock, notes, hubLog, lww>>
       ELSE LET meta == json.meta IN
            /\ clock' = clock + 1
            /\ dbOk => NoteLockFree(s, meta.id)
            /\ notes' = IF dbOk THEN [notes EXCEPT ![meta.id] = {meta}] ELSE notes
            /\ lww' = IF dbOk THEN [lww EXCEPT ![meta.id] = LwwAdd(@, meta)] ELSE lww
            /\ hubLog' = Broadcast(MetadataMsg(json, s))
    /\ UNCHANGED <<crdt, folders, locks, work, sess, wr, acked, last, legacy, store>>

(***************************************************************************)
(* Streaming SyncRequest frame: every pushed update in a transaction of    *)
(* its own, the rest in autocommit statements on the pool.                 *)
(***************************************************************************)
\* the frame is read and its payload parsed
WsSyncFrame(s, req) ==
    /\ sstate[s] = "active" /\ pc[s] = "idle"
    /\ breq' = [breq EXCEPT ![s] = req]
    /\ todo' = [todo EXCEPT ![s] = DOMAIN req.updates]
    /\ resp' = [resp EXCEPT ![s] = [NoResp EXCEPT !.before = Stored(crdt, notes)]]
    /\ pc' = [pc EXCEPT ![s] = "ws_push"]
    /\ clock' = clock + 1
    /\ UNCHANGED <<db, locks, job, txn, hubLog, sess, wr, hist>>

\* the push loop takes an entry (any order); a bad id, bad base64 or a failed begin skips it
WsSyncPush(s, k, beginOk) ==
    /\ pc[s] = "ws_push"
    /\ k \in todo[s]
    /\ todo' = [todo EXCEPT ![s] = @ \ {k}]
    /\ IF ParseOk(k) /\ B64Ok(breq[s].updates[k]) /\ beginOk
       THEN /\ job' = [job EXCEPT ![s] = [note |-> ParseUuid(k), idstr |-> k,
                                          payload |-> breq[s].updates[k], existing |-> {}]]
            /\ txn' = [txn EXCEPT ![s] = BeginTxn]
            /\ clock' = clock + 1
            /\ pc' = [pc EXCEPT ![s] = "ws_select"]
       ELSE UNCHANGED <<job, txn, clock, pc>>
    /\ UNCHANGED <<db, locks, breq, resp, hubLog, sess, wr, hist>>

\* SELECT ydoc_state .. FOR UPDATE; an error reads as None
WsSyncSelect(s, dbOk) ==
    /\ pc[s] = "ws_select"
    /\ LET n == job[s].note IN
       IF dbOk
       THEN /\ crdt[n] # {} => LockFree(s, n)
            /\ rowLock' = [rowLock EXCEPT ![n] = IF crdt[n] # {} THEN {s} ELSE @]
            /\ job' = [job EXCEPT ![s].existing = crdt[n]]
            /\ UNCHANGED txn
       ELSE /\ txn' = [txn EXCEPT ![s].aborted = TRUE]
            /\ UNCHANGED <<rowLock, job>>
    /\ pc' = [pc EXCEPT ![s] = "ws_upsert"]
    /\ UNCHANGED <<clock, db, noteLock, breq, todo, resp, hubLog, sess, wr, hist>>

\* Doc::new(); apply the stored state if it decodes; apply the update if it decodes
WsSyncMerge(existing, blob) ==
    LET base == IF existing # {} /\ DecodesAsUpdate(RowOf(existing).ydoc_state)
                THEN ApplyUpdate({}, RowOf(existing).ydoc_state.ops) ELSE {}
    IN  IF DecodesAsUpdate(blob) THEN ApplyUpdate(base, blob.ops) ELSE base

\* the upsert with the merged state; the result is dropped
WsSyncUpsert(s, dbOk) ==
    /\ pc[s] = "ws_upsert"
    /\ LET n == job[s].note
           merged == WsSyncMerge(job[s].existing, B64Decode(job[s].payload))
       IN
       IF dbOk /\ ~txn[s].aborted
       THEN /\ LockFree(s, n)
            /\ rowLock' = [rowLock EXCEPT ![n] = {s}]
            /\ txn' = [txn EXCEPT ![s].writes[n] =
                          {CrdtRow(merged, StateVectorOf(merged), txn[s].now)}]
       ELSE /\ txn' = [txn EXCEPT ![s].aborted = TRUE]
            /\ UNCHANGED rowLock
    /\ pc' = [pc EXCEPT ![s] = "ws_commit"]
    /\ UNCHANGED <<clock, db, noteLock, job, breq, todo, resp, hubLog, sess, wr, hist>>

\* tx.commit(); on Ok, hub.broadcast_update
WsSyncCommit(s, commitOk) ==
    /\ pc[s] = "ws_commit"
    /\ LET n == job[s].note
           blob == B64Decode(job[s].payload)
           persisted == commitOk /\ ~txn[s].aborted
       IN
       /\ crdt' = IF persisted THEN Committed(s) ELSE crdt
       /\ acked' = IF persisted THEN [acked EXCEPT ![n] = @ \cup OpsOf(blob)] ELSE acked
       /\ hubLog' = IF commitOk THEN BroadcastUpdate(n, blob, s, persisted) ELSE hubLog
    /\ rowLock' = Released(s)
    /\ txn' = [txn EXCEPT ![s] = NoTxn]
    /\ job' = [job EXCEPT ![s] = NoJob]
    /\ pc' = [pc EXCEPT ![s] = "ws_push"]
    /\ UNCHANGED <<clock, notes, folders, noteLock, breq, todo, resp, sess, wr, lww, last, legacy, store>>

\* notes after the metadata loop: each entry upserted if newer, on the pool
RECURSIVE WsSyncMetadata(_, _)
WsSyncMetadata(metas, i) ==
    IF i = 0 THEN notes
    ELSE LET before == WsSyncMetadata(metas, i - 1)
         IN  [before EXCEPT ![metas[i].id] = UpsertIfNewer(@, metas[i])]

\* the diff loop, reading the committed rows
WsSyncDiffs(s) ==
    LET svs == breq[s].state_vectors
        good == {k \in DOMAIN svs :
                    /\ ParseOk(k) /\ B64Ok(svs[k])
                    /\ crdt[ParseUuid(k)] # {}
                    /\ DecodesAsUpdate(RowOf(crdt[ParseUuid(k)]).ydoc_state)
                    /\ DecodesAsSV(B64Decode(svs[k]))}
    IN  [k \in good |-> B64Encode(UpdBlob(EncodeDiff(RowOf(crdt[ParseUuid(k)]).ydoc_state.ops,
                                                     B64Decode(svs[k]).sv)))]

\* the notes the client did not list
WsSyncNewNotes(s, sofar) ==
    LET client_note_ids == {ParseUuid(k) : k \in {x \in DOMAIN breq[s].state_vectors : ParseOk(x)}}
        new_notes == {n \in NoteIds : crdt[n] # {} /\ n \notin client_note_ids}
        add == {UuidToString(n) : n \in new_notes} \ DOMAIN sofar
    IN  [k \in DOMAIN sofar \cup add |->
            IF k \in DOMAIN sofar THEN sofar[k] ELSE B64Encode(RowOf(crdt[ParseUuid(k)]).ydoc_state)]

\* the rows of notes the response carries, given the table after the metadata loop
WsSyncIncluded(s, table) ==
    {n \in NoteIds :
        /\ table[n] # {}
        /\ \/ ClientStamp(breq[s].metadata, n) = -1
           \/ RowOf(table[n]).updated_at > ClientStamp(breq[s].metadata, n)}

\* the loop is over: metadata upserts, diffs, unknown notes, metadata, and the response
\* handed to the writer task through response_tx
WsSyncFinish(s) ==
    /\ pc[s] = "ws_push" /\ todo[s] = {}
    /\ LET metas == breq[s].metadata
           table == WsSyncMetadata(metas, Len(metas))
           answer == [status |-> 200,
                      updates |-> WsSyncNewNotes(s, WsSyncDiffs(s)),
                      metadata |-> {RowOf(table[n]) : n \in WsSyncIncluded(s, table)},
                      seen |-> crdt,
                      before |-> resp[s].before,
                      after |-> Stored(crdt, table),
                      failed |-> "none"]
       IN
       /\ \A i \in DOMAIN metas : NoteLockFree(s, metas[i].id)
       /\ notes' = table
       /\ lww' = [n \in NoteIds |-> LwwAll(lww[n], metas, n, Len(metas))]
       /\ resp' = [resp EXCEPT ![s] = answer]
       /\ respQ' = [respQ EXCEPT ![s] = Append(@, answer)]
    /\ clock' = clock + 1
    /\ pc' = [pc EXCEPT ![s] = "idle"]
    /\ UNCHANGED <<crdt, folders, locks, job, txn, breq, todo, hubLog, sess, rx, wpc, out, acked, last, legacy, store>>

\* select! takes the response branch: the response is written to the socket
WriterResponse(s, sendOk) ==
    /\ sstate[s] = "active" /\ wpc[s] \in {"select", "resp_only"}
    /\ respQ[s] # <<>>
    /\ respQ' = [respQ EXCEPT ![s] = Tail(@)]
    /\ wpc' = [wpc EXCEPT ![s] = IF sendOk THEN "select" ELSE "done"]
    /\ UNCHANGED <<clock, db, locks, work, hubLog, sess, rx, out, hist>>

(***************************************************************************)
(* Inputs.                                                                 *)
(***************************************************************************)
Lower(n) == IdString(n, "lower")
Upper(n) == IdString(n, "upper")

\* all maps from a set of keys to values
Maps(keys, values) == UNION {[d -> values] : d \in keys}

Req(svs, upds, metas) == [state_vectors |-> svs, updates |-> upds, metadata |-> metas]

UpdA == UpdBlob({<<"c1", 1>>})
UpdAB == UpdBlob({<<"c1", 1>>, <<"c1", 2>>})
UpdC == UpdBlob({<<"c2", 1>>})

(***************************************************************************)
(* Spec: the merge paths running against each other.                       *)
(***************************************************************************)
MergeIds == {Lower("n1"), NotUuid}
MergePayloads == {B64Encode(UpdA), B64Encode(UpdC), B64Encode(JunkBlob), NotBase64}
MergeReqs ==
    {Req(EmptyMap, u, <<>>) :
        u \in [{Lower("n1")} -> {B64Encode(UpdAB), B64Encode(JunkBlob)}]
              \cup {[k \in {Lower("n1"), NotUuid} |-> B64Encode(UpdAB)]}}

Next ==
    \/ \E s \in Sessions : Connect(s)
    \/ /\ clock <= MaxMergeTxns
       /\ \/ \E s \in Sessions, i \in MergeIds, p \in MergePayloads, ok \in BOOLEAN :
                UpdateFrame(s, i, p, ok)
          \/ \E req \in MergeReqs : WsSyncFrame("A", req)
          \/ \E req \in MergeReqs, ok \in BOOLEAN : BatchBegin("r1", req, ok)
          \/ \E s \in Sessions : BadFrame(s)
    \/ \E s \in Sessions, ok \in BOOLEAN : UpdateSelect(s, ok)
    \/ \E s \in Sessions, ok \in BOOLEAN : UpdateUpsert(s, ok)
    \/ \E s \in Sessions, ok \in BOOLEAN : UpdateCommit(s, ok)
    \/ \E s \in Sessions, k \in MergeIds, ok \in BOOLEAN : WsSyncPush(s, k, ok)
    \/ \E s \in Sessions, ok \in BOOLEAN : WsSyncSelect(s, ok)
    \/ \E s \in Sessions, ok \in BOOLEAN : WsSyncUpsert(s, ok)
    \/ \E s \in Sessions, ok \in BOOLEAN : WsSyncCommit(s, ok)
    \/ \E s \in Sessions : WsSyncFinish(s)
    \/ \E k \in MergeIds, ok \in BOOLEAN : BatchPushSelect("r1", k, ok)
    \/ \E ok \in BOOLEAN : BatchPushUpsert("r1", ok)
    \/ \E ok1 \in BOOLEAN, ok2 \in BOOLEAN : BatchRespond("r1", ok1, ok2)

Spec == Init /\ [][Next]_vars

(***************************************************************************)
(* SpecSync: one client after another calling POST /sync/crdt.             *)
(***************************************************************************)
SV1 == [ZeroSV EXCEPT !["c1"] = 1]
SV2 == [ZeroSV EXCEPT !["c1"] = 2]

MetaOf(id, title, at) == NoteRow(id, title, "", "none", FALSE, FALSE, at)

SyncVectors ==
    Maps({{}, {Lower("n1")}, {Upper("n1")}},
         {B64Encode(SvBlob(ZeroSV)), B64Encode(SvBlob(SV1)), B64Encode(SvBlob(SV2))})
SyncUpdates ==
    Maps({{}, {Lower("n1")}}, {B64Encode(UpdA), B64Encode(UpdAB), B64Encode(UpdC)})
    \cup {[k \in {Lower("n2")} |-> B64Encode(UpdC)]}
\* the row of a note the client has deleted
Tombstone(id, at) == NoteRow(id, "", "", "none", TRUE, FALSE, at)

SyncMetas == {<<>>, <<MetaOf("n1", "t1", 1)>>, <<Tombstone("n1", 2), MetaOf("n1", "t1", 1)>>}
SyncReqs == {Req(v, u, m) : v \in SyncVectors, u \in SyncUpdates, m \in SyncMetas}

NextSync ==
    \/ /\ clock <= MaxSyncTxns
       /\ \E req \in SyncReqs : BatchBegin("r1", req, TRUE)
    \/ \E k \in {Lower("n1"), Lower("n2")} : BatchPushSelect("r1", k, TRUE)
    \/ BatchPushUpsert("r1", TRUE)
    \/ BatchMetadata("r1", TRUE)
    \/ BatchRespond("r1", TRUE, TRUE)

SpecSync == Init /\ [][NextSync]_vars

(***************************************************************************)
(* SpecMeta: the writers of the notes table.                               *)
(***************************************************************************)
MetaRows == {MetaOf("n1", t, at) : t \in {"t1", "t2"}, at \in 1..MaxStamp}
MetaReqs == {Req(EmptyMap, EmptyMap, <<m>>) : m \in MetaRows}

NextMeta ==
    \/ \E s \in Sessions : Connect(s)
    \/ /\ clock <= MaxRestTxns
       /\ \/ \E req \in MetaReqs : BatchBegin("r1", req, TRUE)
          \/ \E m \in MetaRows : WsNoteMetadata("A", MetaJson(m), TRUE)
          \/ \E req \in MetaReqs : WsSyncFrame("B", req)
          \/ SaveNote("r2", "n1", "t3", "", "none", FALSE, FALSE, TRUE)
    \/ BatchMetadata("r1", TRUE)
    \/ BatchRespond("r1", TRUE, TRUE)
    \/ WsSyncFinish("B")

SpecMeta == Init /\ [][NextMeta]_vars

(***************************************************************************)
(* SpecFolders: the REST handlers of folders and notes.                    *)
(***************************************************************************)
FolderIdStrings == {Lower("f1"), Lower("f2"), NotUuid}
Parents == FolderIds \cup {"none"}

NextFolders ==
    \/ /\ clock <= MaxRestTxns
       /\ \/ \E f \in FolderIds, parent \in Parents, ok \in BOOLEAN : SaveFolder(f, parent, ok)
          \/ \E i \in FolderIdStrings, ok \in BOOLEAN : DeleteFolder(i, ok)
          \/ \E c \in {"", "x"}, folder \in Parents, ok \in BOOLEAN :
                SaveNote("r2", "n1", "t1", c, folder, FALSE, FALSE, ok)
          \/ \E i \in {Lower("n1"), NotUuid}, ok \in BOOLEAN : DeleteNote("r2", i, ok)
          \/ \E i \in {Lower("n1"), NotUuid}, ok \in BOOLEAN : GetNote(i, ok)
    \/ \E ok \in BOOLEAN : SaveNoteSeed("r2", ok)

SpecFolders == Init /\ [][NextFolders]_vars

(***************************************************************************)
(* SpecHub: streaming sessions, their subscriptions and writer tasks.      *)
(* FairHub: the same, with the writer tasks scheduled fairly.              *)
(***************************************************************************)
HubIds == {Lower("n1")}
HubPayloads == {B64Encode(UpdA), B64Encode(UpdC)}

NextHub ==
    \/ \E s \in Sessions : Connect(s)
    \/ \E s \in Sessions : Close(s)
    \/ \E s \in Sessions, i \in HubIds : Subscribe(s, i) /\ UNCHANGED sublog
    \/ \E s \in Sessions, i \in HubIds : Unsubscribe(s, i) /\ UNCHANGED sublog
    \/ /\ clock <= MaxHubTxns
       /\ \/ \E i \in HubIds, p \in HubPayloads : UpdateFrame("A", i, p, TRUE)
          \/ WsNoteMetadata("A", MetaJson(MetaOf("n1", "t1", 1)), TRUE)
    \/ UpdateSelect("A", TRUE)
    \/ UpdateUpsert("A", TRUE)
    \/ UpdateCommit("A", TRUE)
    \/ \E s \in Sessions : WriterRecv(s)
    \/ \E s \in Sessions, ok \in BOOLEAN : WriterSend(s, ok)

SpecHub == Init /\ [][NextHub]_vars

\* send_task is a spawned task: the runtime keeps polling it while a message is waiting
FairHub ==
    /\ SpecHub
    /\ \A s \in Sessions : WF_vars(WriterRecv(s))
    /\ \A s \in Sessions : WF_vars(\E ok \in BOOLEAN : WriterSend(s, ok))

(***************************************************************************)
(* FairLag: session A publishing NoteMetadata messages while the writer    *)
(* tasks, scheduled fairly, take them from the hub at their own pace; no   *)
(* session is sent a response.                                             *)
(***************************************************************************)
MaxLagTxns == 3

NextLag ==
    \/ \E s \in Sessions : Connect(s)
    \/ clock <= MaxLagTxns /\ WsNoteMetadata("A", MetaJson(MetaOf("n1", "t1", 1)), TRUE)
    \/ \E s \in Sessions : WriterRecv(s)
    \/ \E s \in Sessions, ok \in BOOLEAN : WriterSend(s, ok)

FairLag ==
    /\ Init /\ [][NextLag]_vars
    /\ \A s \in Sessions : WF_vars(WriterRecv(s))
    /\ \A s \in Sessions : WF_vars(\E ok \in BOOLEAN : WriterSend(s, ok))

(***************************************************************************)
(* SpecCross: two POST /sync/crdt requests pushing updates for the same    *)
(* two notes, each in the order its HashMap yields; every statement that   *)
(* can run succeeds.                                                       *)
(***************************************************************************)
MaxCrossTxns == 2
CrossIds == {Lower("n1"), Lower("n2")}
CrossReqs == {Req(EmptyMap, [k \in CrossIds |-> B64Encode(u)], <<>>) : u \in {UpdA, UpdC}}

NextCross ==
    \/ clock <= MaxCrossTxns /\ \E r \in Batches, req \in CrossReqs : BatchBegin(r, req, TRUE)
    \/ \E r \in Batches, k \in CrossIds : BatchPushSelect(r, k, TRUE)
    \/ \E r \in Batches : BatchPushUpsert(r, TRUE)
    \/ \E r \in Batches : BatchRespond(r, TRUE, TRUE)
    \/ \E r \in Batches : DeadlockAbort(r)

SpecCross == Init /\ [][NextCross]_vars

(***************************************************************************)
(* SpecSubs: the sessions of SpecHub sending Subscribe and Unsubscribe     *)
(* frames in every text form of the id, with the history of these frames   *)
(* kept in sublog, while A sends Update frames.                            *)
(***************************************************************************)
SubIds == {Lower("n1"), Upper("n1"), NotUuid}

\* the history after a Subscribe frame: an id that does not parse is no note id
LogSubscribe(l, idstr) ==
    IF ParseOk(idstr)
    THEN [l EXCEPT !.want = @ \cup {ParseUuid(idstr)}, !.open[ParseUuid(idstr)] = NoFrame]
    ELSE l

\* the history after an Unsubscribe frame
LogUnsubscribe(l, idstr) ==
    IF ParseOk(idstr)
    THEN [l EXCEPT !.want = @ \ {ParseUuid(idstr)},
                   !.first[ParseUuid(idstr)] = IF @ = NoFrame THEN Len(hubLog) ELSE @,
                   !.open[ParseUuid(idstr)] = Len(hubLog)]
    ELSE l

NextSubs ==
    \/ \E s \in Sessions : Connect(s)
    \/ \E s \in Sessions : Close(s)
    \/ \E s \in Sessions, i \in SubIds :
          Subscribe(s, i) /\ sublog' = [sublog EXCEPT ![s] = LogSubscribe(@, i)]
    \/ \E s \in Sessions, i \in SubIds :
          Unsubscribe(s, i) /\ sublog' = [sublog EXCEPT ![s] = LogUnsubscribe(@, i)]
    \/ /\ clock <= MaxHubTxns
       /\ \E i \in HubIds : UpdateFrame("A", i, B64Encode(UpdA), TRUE)
    \/ UpdateSelect("A", TRUE)
    \/ UpdateUpsert("A", TRUE)
    \/ UpdateCommit("A", TRUE)
    \/ \E s \in Sessions : WriterRecv(s)
    \/ \E s \in Sessions, ok \in BOOLEAN : WriterSend(s, ok)

SpecSubs == Init /\ [][NextSubs]_vars

(***************************************************************************)
(* SpecSeed: POST /notes seeding the document of a note while a streaming  *)
(* session and POST /sync/crdt merge updates into it.                      *)
(***************************************************************************)
SeedContents == {"", "x", "<br>"}
SeedReqs == {Req(EmptyMap, [k \in {Lower("n1")} |-> B64Encode(UpdC)], <<>>)}

NextSeed ==
    \/ Connect("A")
    \/ /\ clock <= MaxRestTxns
       /\ \/ \E c \in SeedContents, canvas \in BOOLEAN :
                SaveNote("r2", "n1", "t1", c, "none", FALSE, canvas, TRUE)
          \/ UpdateFrame("A", Lower("n1"), B64Encode(UpdA), TRUE)
          \/ \E req \in SeedReqs : BatchBegin("r1", req, TRUE)
    \/ \E ok \in BOOLEAN : SaveNoteSeed("r2", ok)
    \/ UpdateSelect("A", TRUE)
    \/ UpdateUpsert("A", TRUE)
    \/ UpdateCommit("A", TRUE)
    \/ BatchPushSelect("r1", Lower("n1"), TRUE)
    \/ BatchPushUpsert("r1", TRUE)
    \/ BatchRespond("r1", TRUE, TRUE)

SpecSeed == Init /\ [][NextSeed]_vars

(***************************************************************************)
(* SpecPull: clients calling POST /sync and POST /sync/folders, one        *)
(* request at a time.                                                      *)
(***************************************************************************)
MaxPullTxns == 2
Sinces == {NoSince, 1}
PullNoteRows ==
    {MetaOf("n1", t, at) : t \in {"t1", "t2"}, at \in 1..MaxStamp}
    \cup {Tombstone("n1", MaxStamp), MetaOf("n2", "t1", 1)}
PullEntries ==
    {FolderEntry("f1", "none", at, at, d) : at \in 1..MaxStamp, d \in BOOLEAN}
    \cup {FolderEntry("f2", p, at, at, FALSE) : p \in {"none", "f1"}, at \in 1..MaxStamp}

\* the pushed lists: empty, one row, or two rows
Lists(rows) == {<<>>} \cup {<<r>> : r \in rows} \cup {<<r, q>> : r \in rows, q \in rows}

NextPull ==
    /\ clock <= MaxPullTxns
    /\ \/ \E since \in Sinces, list \in Lists(PullNoteRows), ok \in BOOLEAN :
             SyncNotes(since, list, ok)
       \/ \E since \in Sinces, known \in {{}, {"f1"}}, list \in Lists(PullEntries),
               ok \in BOOLEAN :
             SyncFolders(since, known, list, ok)

SpecPull == Init /\ [][NextPull]_vars

(***************************************************************************)
(* SpecClient: a client applying the updates it receives to its store.     *)
(***************************************************************************)
MaxClientTxns == 3
ClientUpdates == {UpdA, UpdAB, UpdC, UpdBlob({<<"c1", 1>>, <<"c2", 1>>})}

NextClient ==
    /\ clock <= MaxClientTxns
    /\ \E n \in NoteIds, u \in ClientUpdates, ok \in BOOLEAN : ApplyCrdtUpdate(n, u, ok)

SpecClient == Init /\ [][NextClient]_vars

(***************************************************************************)
(* SpecTwin: the same sync requests sent to POST /sync/crdt and, as         *)
(* SyncRequest frames, to a streaming session, one request at a time.      *)
(***************************************************************************)
TwinVectors == {EmptyMap, [k \in {Lower("n1")} |-> B64Encode(SvBlob(ZeroSV))],
                [k \in {Lower("n1")} |-> NotBase64]}
TwinUpdates == {EmptyMap, [k \in {Lower("n1")} |-> B64Encode(UpdA)],
                [k \in {NotUuid} |-> B64Encode(UpdA)]}
TwinReqs == {Req(v, u, m) : v \in TwinVectors, u \in TwinUpdates, m \in SyncMetas}

NextTwin ==
    \/ Connect("A")
    \/ /\ clock <= MaxSyncTxns
       /\ pc["A"] = "idle" /\ pc["r1"] = "idle"
       /\ \/ \E req \in TwinReqs : BatchBegin("r1", req, TRUE)
          \/ \E req \in TwinReqs : WsSyncFrame("A", req)
    \/ \E k \in {Lower("n1"), NotUuid} : BatchPushSelect("r1", k, TRUE)
    \/ BatchPushUpsert("r1", TRUE)
    \/ BatchMetadata("r1", TRUE)
    \/ BatchRespond("r1", TRUE, TRUE)
    \/ \E k \in {Lower("n1"), NotUuid} : WsSyncPush("A", k, TRUE)
    \/ WsSyncSelect("A", TRUE)
    \/ WsSyncUpsert("A", TRUE)
    \/ WsSyncCommit("A", TRUE)
    \/ WsSyncFinish("A")

SpecTwin == Init /\ [][NextTwin]_vars

(***************************************************************************)
(* SpecSyncErr: POST /sync/crdt, one request after another, with malformed *)
(* entries in the request and failing database calls.                      *)
(***************************************************************************)
ErrVectors == {EmptyMap,
               [k \in {Lower("n1")} |-> B64Encode(SvBlob(ZeroSV))],
               [k \in {NotUuid} |-> B64Encode(SvBlob(ZeroSV))],
               [k \in {Lower("n1")} |-> NotBase64],
               [k \in {Lower("n1")} |-> B64Encode(JunkBlob)]}
ErrUpdates == {EmptyMap,
               [k \in {Lower("n1")} |-> B64Encode(UpdA)],
               [k \in {Lower("n1"), NotUuid} |-> B64Encode(UpdA)],
               [k \in {Lower("n1"), Lower("n2")} |-> IF k = Lower("n1") THEN B64Encode(UpdA) ELSE NotBase64]}
ErrMetas == {<<>>, <<MetaOf("n1", "t1", 1)>>, <<MetaOf("n1", "t1", 1), MetaOf("n2", "t2", 1)>>}
ErrReqs == {Req(v, u, m) : v \in ErrVectors, u \in ErrUpdates, m \in ErrMetas}

NextErr ==
    \/ /\ clock <= MaxSyncTxns
       /\ \E req \in ErrReqs, ok \in BOOLEAN : BatchBegin("r1", req, ok)
    \/ \E k \in {Lower("n1"), Lower("n2"), NotUuid}, ok \in BOOLEAN : BatchPushSelect("r1", k, ok)
    \/ \E ok \in BOOLEAN : BatchPushUpsert("r1", ok)
    \/ \E ok \in BOOLEAN : BatchMetadata("r1", ok)
    \/ \E ok1 \in BOOLEAN, ok2 \in BOOLEAN : BatchRespond("r1", ok1, ok2)

SpecSyncErr == Init /\ [][NextErr]_vars

(***************************************************************************)
(* Properties.                                                             *)
(***************************************************************************)
\* the update an id string of hubLog[i] names, when it names one
NoteOfMsg(i) == ParseUuid(hubLog[i].note_id)
IsUpdateFor(i, n) ==
    hubLog[i].type = "update" /\ ParseOk(hubLog[i].note_id) /\ NoteOfMsg(i) = n

\* C1 (Spec), as the claim states the outcome of concurrent merges: once the merges of a
\* note have committed, the stored snapshot holds the operations of every one of their
\* updates, as it would had they run one after the other.
C1_PerNoteSerialization ==
    \A n \in NoteIds :
        acked[n] # {} => crdt[n] # {} /\ acked[n] \subseteq RowOf(crdt[n]).ydoc_state.ops

\* two merges of different updates for one note have both committed
C1_BothCommitted ==
    /\ {<<"c1", 1>>, <<"c2", 1>>} \subseteq acked["n1"]
    /\ \A w \in Workers : pc[w] = "idle"

\* C2 (SpecMeta), as the claim states it: whatever the order and the path of the
\* metadata writes of a note, the stored row is the payload of a write with the
\* greatest timestamp.
C2_MetadataLww ==
    \A n \in NoteIds : lww[n] # {} => notes[n] # {} /\ RowOf(notes[n]) \in lww[n]

\* a write with timestamp 2 and then one with timestamp 1 have been applied to n1
C2_OlderAfterNewer ==
    /\ \E row \in lww["n1"] : row.updated_at = 2
    /\ notes["n1"] # {} /\ RowOf(notes["n1"]).updated_at = 1

\* the request of scenario S1 for the key k: one update, no state vectors, no metadata
IsPushOnly(req, k) ==
    /\ DOMAIN req.updates = {k} /\ ParseOk(k) /\ B64Ok(req.updates[k])
    /\ DecodesAsUpdate(B64Decode(req.updates[k]))
    /\ req.state_vectors = EmptyMap /\ req.metadata = <<>>

\* C3 (SpecSync), as the claim states it: a batch request that only pushes update U for
\* note N, after which the server holds exactly U's operations for N, gets a response
\* with no updates entry for N, and a crdt_states row for N is stored.
C3_NoEcho ==
    (pc["r1"] = "idle" /\ resp["r1"].status = 200) =>
        \A k \in DOMAIN breq["r1"].updates :
            (/\ IsPushOnly(breq["r1"], k)
             /\ resp["r1"].seen[ParseUuid(k)] # {}
             /\ RowOf(resp["r1"].seen[ParseUuid(k)]).ydoc_state.ops = B64Decode(breq["r1"].updates[k]).ops)
            => /\ crdt[ParseUuid(k)] # {}
               /\ \A k2 \in DOMAIN resp["r1"].updates : ~(ParseOk(k2) /\ ParseUuid(k2) = ParseUuid(k))

\* scenario S1 has run: the first request pushed n1 alone and was answered
C3_PushAnswered ==
    /\ pc["r1"] = "idle" /\ resp["r1"].status = 200
    /\ IsPushOnly(breq["r1"], Lower("n1"))
    /\ crdt["n1"] # {} /\ RowOf(crdt["n1"]).updated_at = 1

\* C4 (SpecFolders), as the claim states it: when DELETE /folders/F has succeeded, every
\* folder of F's subtree is soft-deleted, and so is every note filed in that subtree,
\* with the delete's timestamp as its updated_at.
C4_RecursiveDelete ==
    (last.op = "delete_folder" /\ last.status = 200) =>
        /\ \A g \in Descendants({last.id}) : RowOf(folders[g]).is_deleted
        /\ \A n \in NoteIds :
              (notes[n] # {} /\ RowOf(notes[n]).folder_id \in Descendants({last.id}))
              => RowOf(notes[n]).is_deleted /\ RowOf(notes[n]).updated_at = last.at

\* a folder holding a note has been deleted
C4_DeletedWithNote ==
    /\ last.op = "delete_folder" /\ last.status = 200
    /\ \E n \in NoteIds : notes[n] # {} /\ RowOf(notes[n]).folder_id = last.id

\* C5 (Spec), as the claim states it: the merge of every Update message on the hub had
\* been committed when the message was sent.
C5_PublishAfterCommit ==
    \A i \in DOMAIN hubLog : hubLog[i].type = "update" => hubLog[i].committed

\* an update has been published
C5_Published == \E i \in DOMAIN hubLog : hubLog[i].type = "update"

\* worker w is merging an update that does not decode
MergingJunk(w) ==
    /\ pc[w] \in {"upd_select", "upd_upsert", "upd_commit", "ws_select", "ws_upsert",
                  "ws_commit", "b_upsert"}
    /\ ~DecodesAsUpdate(B64Decode(job[w].payload))

\* C6 (Spec), as the claim states it: no step of a merge whose update does not decode
\* changes the stored row of its note or publishes to the hub.
C6_MalformedFailsClosed ==
    [][\A w \in Workers :
          (MergingJunk(w) /\ pc'[w] # pc[w])
          => crdt'[job[w].note] = crdt[job[w].note] /\ hubLog' = hubLog]_vars

\* an update that does not decode has been through a merge
C6_JunkMerged ==
    \E i \in DOMAIN hubLog :
        hubLog[i].type = "update" /\ ~DecodesAsUpdate(B64Decode(hubLog[i].payload))

\* C7 (SpecHub): a writer task sends its peer only a message that has passed its filter,
\* an Update message passes the filter only when its note is in the session's
\* subscription set at that moment, and a session that never had note n in its
\* subscription set is never sent an update frame for n.
C7_ForwardOnlySubscribed ==
    /\ [][\A s \in Sessions :
             /\ \A i \in out'[s] \ out[s] : wpc[s] = "send" /\ i = rx[s]
             /\ (wpc[s] # "send" /\ wpc'[s] = "send" /\ hubLog[rx'[s]].type = "update")
                => ParseOk(hubLog[rx'[s]].note_id) /\ NoteOfMsg(rx'[s]) \in subs[s]]_vars
    /\ \A s \in Sessions, n \in NoteIds :
          [](n \notin subs[s]) => [](\A i \in out[s] : ~IsUpdateFor(i, n))

\* scenario S4: B was sent the note_metadata frame, has passed the update that followed
\* it on the hub without being sent it, and A, subscribed, was sent that update
C7_FilteredForOne ==
    \E i \in DOMAIN hubLog, j \in DOMAIN hubLog :
        /\ j < i /\ hubLog[j].type = "note_metadata" /\ j \in out["B"]
        /\ IsUpdateFor(i, "n1") /\ rx["B"] >= i /\ i \notin out["B"] /\ i \in out["A"]

\* session s is no longer able to forward: its writer has ended (a failed send), waits
\* for a response after a lag, or the connection is closed
CannotForward(s) == sstate[s] # "active" \/ wpc[s] \in {"done", "resp_only"}

\* C8 (FairHub), as the claim states it: an Update another session submitted, published
\* while s was subscribed to its note and waiting in s's receiver, is eventually sent to s, unless s's socket stops being writable or its
\* receiver lags.
C8_SubscriberIsSent ==
    \A s \in Sessions, i \in 1..MaxHubTxns :
        (Len(hubLog) >= i /\ s \in hubLog[i].subscribed /\ hubLog[i].from # s /\ rx[s] < i)
        ~> (i \in out[s] \/ CannotForward(s))

\* C8 (FairHub), amended: an Update another session submitted, published while s was
\* subscribed to its note and waiting in s's receiver, is eventually sent to s, with the id and payload it was published with, unless s's
\* socket stops being writable, its receiver lags, or s has unsubscribed from the note
\* by the time its writer task takes the message.
C8_SubscriberIsSentUnlessUnsubscribed ==
    \A s \in Sessions, i \in 1..MaxHubTxns :
        (Len(hubLog) >= i /\ s \in hubLog[i].subscribed /\ hubLog[i].from # s /\ rx[s] < i)
        ~> (i \in out[s] \/ CannotForward(s) \/ (Len(hubLog) >= i /\ NoteOfMsg(i) \notin subs[s]))

\* scenario S3: B was subscribed when A's update was published, and has been sent it
C8_Delivered ==
    \E i \in DOMAIN hubLog :
        hubLog[i].type = "update" /\ hubLog[i].from = "A"
        /\ "B" \in hubLog[i].subscribed /\ i \in out["B"]

\* C9 (SpecHub), as the claim states it: no session is sent an Update message that it
\* submitted itself.
C9_NoSelfEcho ==
    \A s \in Sessions : \A i \in out[s] : hubLog[i].type = "update" => hubLog[i].from # s

\* a subscribed session has submitted an update and its writer task has sent it back
C9_OwnUpdateSent ==
    \E i \in DOMAIN hubLog :
        hubLog[i].type = "update" /\ hubLog[i].from = "A"
        /\ "A" \in hubLog[i].subscribed /\ i \in out["A"]

\* C10 (SpecSync): for every state vector of an answered request that covers a subset of
\* the operations of the server's document of that note, the response's entry under the
\* same key, applied to a document holding exactly the covered operations, gives the
\* server's document.
C10_DiffCatchUp ==
    (pc["r1"] = "idle" /\ resp["r1"].status = 200) =>
        \A k \in DOMAIN breq["r1"].state_vectors :
            LET v == breq["r1"].state_vectors[k]
                seen == resp["r1"].seen[ParseUuid(k)]
            IN  (/\ ParseOk(k) /\ B64Ok(v) /\ DecodesAsSV(B64Decode(v))
                 /\ seen # {}
                 /\ Covered(B64Decode(v).sv) \subseteq RowOf(seen).ydoc_state.ops)
                => /\ k \in DOMAIN resp["r1"].updates
                   /\ B64Ok(resp["r1"].updates[k])
                   /\ DecodesAsUpdate(B64Decode(resp["r1"].updates[k]))
                   /\ ApplyUpdate(Covered(B64Decode(v).sv), B64Decode(resp["r1"].updates[k]).ops)
                      = RowOf(seen).ydoc_state.ops

\* scenario S2: the client holds {a}, the server {a, b}, and the response carries b
C10_CaughtUp ==
    /\ pc["r1"] = "idle" /\ resp["r1"].status = 200
    /\ Lower("n1") \in DOMAIN breq["r1"].state_vectors
    /\ breq["r1"].state_vectors[Lower("n1")] = B64Encode(SvBlob(SV1))
    /\ crdt["n1"] # {} /\ RowOf(crdt["n1"]).ydoc_state.ops = {<<"c1", 1>>, <<"c1", 2>>}
    /\ Lower("n1") \in DOMAIN resp["r1"].updates
    /\ B64Decode(resp["r1"].updates[Lower("n1")]).ops = {<<"c1", 2>>}

\* the entries of an answered request's updates map that belong to note n
EntriesFor(r, n) == {k \in DOMAIN resp[r].updates : ParseOk(k) /\ ParseUuid(k) = n}

\* the state vector the client sent under key k is the stored one of that note
SentStoredVector(r, k) ==
    LET v == breq[r].state_vectors[k] IN
    /\ ParseOk(k) /\ B64Ok(v) /\ DecodesAsSV(B64Decode(v))
    /\ resp[r].seen[ParseUuid(k)] # {}
    /\ B64Decode(v) = RowOf(resp[r].seen[ParseUuid(k)]).state_vector

\* C11 (SpecSync), as the claim states it: a request whose state vector for note N is the
\* stored state vector of N is answered, for N, with no updates entry or with entries
\* that hold no operations.
C11_MinimalDiff ==
    (pc["r1"] = "idle" /\ resp["r1"].status = 200) =>
        \A k \in DOMAIN breq["r1"].state_vectors :
            SentStoredVector("r1", k)
            => \A k2 \in EntriesFor("r1", ParseUuid(k)) : B64Decode(resp["r1"].updates[k2]).ops = {}

\* a client that holds all of a non-empty stored document has been answered
C11_UpToDateAnswered ==
    /\ pc["r1"] = "idle" /\ resp["r1"].status = 200
    /\ \E k \in DOMAIN breq["r1"].state_vectors :
          /\ SentStoredVector("r1", k)
          /\ RowOf(resp["r1"].seen[ParseUuid(k)]).ydoc_state.ops # {}
          /\ k \in DOMAIN resp["r1"].updates

\* the merge of an Update frame with this id and payload has been committed before
MergedBefore(idstr, payload) ==
    \E i \in DOMAIN hubLog :
        /\ hubLog[i].type = "update" /\ hubLog[i].committed /\ hubLog[i].from \in Sessions
        /\ hubLog[i].note_id = idstr /\ hubLog[i].payload = payload

\* session s is about to commit a merge of an update U that was merged before, on top of
\* the stored document that still holds that earlier merge
MergingAgain(s) ==
    /\ pc[s] = "upd_commit"
    /\ job[s].existing # {} /\ job[s].existing = crdt[job[s].note]
    /\ MergedBefore(job[s].idstr, job[s].payload)
    /\ OpsOf(B64Decode(job[s].payload)) \subseteq RowOf(crdt[job[s].note]).ydoc_state.ops

\* C12 (Spec): the merge of an Update frame is idempotent: running it a second time with
\* the same update leaves the stored snapshot and the stored state vector as the first
\* run left them.
C12_MergeIdempotent ==
    [][\A s \in Sessions :
          (MergingAgain(s) /\ pc'[s] = "idle")
          => LET n == job[s].note IN
             /\ crdt'[n] # {}
             /\ RowOf(crdt'[n]).ydoc_state = RowOf(crdt[n]).ydoc_state
             /\ RowOf(crdt'[n]).state_vector = RowOf(crdt[n]).state_vector]_vars

\* session A has merged the same non-empty update twice, one merge after the other, and
\* the second merge rewrote the row
C12_MergedTwice ==
    /\ pc["A"] = "idle"
    /\ \E i \in DOMAIN hubLog : \E j \in DOMAIN hubLog :
          /\ i < j
          /\ hubLog[i].type = "update" /\ hubLog[j].type = "update"
          /\ hubLog[i].from = "A" /\ hubLog[j].from = "A"
          /\ hubLog[i].committed /\ hubLog[j].committed
          /\ hubLog[i].note_id = Lower("n1") /\ hubLog[j].note_id = Lower("n1")
          /\ hubLog[i].payload = B64Encode(UpdA) /\ hubLog[j].payload = B64Encode(UpdA)
    /\ crdt["n1"] # {} /\ RowOf(crdt["n1"]).ydoc_state = UpdA /\ RowOf(crdt["n1"]).updated_at = 2

\* the operations of the updates pushed for note n so far, whatever their order
PushedOps(n) ==
    UNION {OpsOf(B64Decode(hubLog[i].payload)) :
              i \in {x \in DOMAIN hubLog : hubLog[x].type = "update" /\ ParseUuid(hubLog[x].note_id) = n}}

\* C13 (SpecSync): the batch merge commutes: after updates were merged into note N one
\* after the other, the stored snapshot holds the operations of all of them, the same
\* set in whichever order they were merged.
C13_MergeCommutes ==
    pc["r1"] = "idle" =>
        \A n \in NoteIds :
            crdt[n] # {} => RowOf(crdt[n]).ydoc_state.ops = PushedOps(n)

\* two different updates were merged into n1 by two requests, the one of client c2 first
C13_MergedInTurn ==
    /\ pc["r1"] = "idle"
    /\ \E i \in DOMAIN hubLog : \E j \in DOMAIN hubLog :
          /\ i < j
          /\ hubLog[i].note_id = Lower("n1") /\ hubLog[j].note_id = Lower("n1")
          /\ hubLog[i].payload = B64Encode(UpdC) /\ hubLog[j].payload = B64Encode(UpdA)
    /\ crdt["n1"] # {} /\ RowOf(crdt["n1"]).ydoc_state.ops = {<<"c1", 1>>, <<"c2", 1>>}

\* the batch handler and the streaming handler have both finished the same request,
\* each having found the same documents and notes rows when it started
SameRequestSameStart ==
    /\ pc["A"] = "idle" /\ pc["r1"] = "idle"
    /\ resp["A"].status # 0 /\ resp["r1"].status # 0
    /\ breq["A"] = breq["r1"]
    /\ resp["A"].before = resp["r1"].before

\* C14 (SpecTwin), as the claim states it: for the same request and the same starting
\* tables the streaming SyncRequest handler and POST /sync/crdt end alike (an answer or an
\* error), leave the same stored documents and notes rows, and return the same updates map
\* and the same metadata list.
C14_StreamEqualsBatch ==
    SameRequestSameStart =>
        /\ resp["A"].status = resp["r1"].status
        /\ resp["A"].after = resp["r1"].after
        /\ resp["A"].updates = resp["r1"].updates
        /\ resp["A"].metadata = resp["r1"].metadata

\* both handlers have answered the same request that pushed an update and a metadata row
C14_BothAnswered ==
    /\ SameRequestSameStart
    /\ resp["A"].status = 200 /\ resp["r1"].status = 200
    /\ DOMAIN breq["A"].updates # {} /\ Len(breq["A"].metadata) > 0
    /\ resp["A"].after.docs["n1"] # {}

\* the operations the request r is serving (or served last) pushes for note n
PushedBy(r, n) ==
    UNION {OpsOf(B64Decode(breq[r].updates[k])) :
              k \in {x \in DOMAIN breq[r].updates : ParseOk(x) /\ ParseUuid(x) = n}}

\* what the updates entry under key k holds when computed from the document ops
EntryFrom(r, k, ops) ==
    LET svs == breq[r].state_vectors IN
    IF k \in DOMAIN svs /\ B64Ok(svs[k]) /\ DecodesAsSV(B64Decode(svs[k]))
    THEN EncodeDiff(ops, B64Decode(svs[k]).sv)
    ELSE ops

\* C15 (SpecSync): a batch request reads its own writes: every diff and snapshot of the
\* response is computed from the document with the updates this request pushed merged
\* in, and the metadata list is the timestamp comparison applied to the notes rows as
\* they are after this request's own metadata upserts.
C15_ReadsOwnWrites ==
    (pc["r1"] = "idle" /\ resp["r1"].status = 200) =>
        /\ \A n \in NoteIds :
              PushedBy("r1", n) # {} =>
                  /\ crdt[n] # {} /\ PushedBy("r1", n) \subseteq RowOf(crdt[n]).ydoc_state.ops
                  /\ \A k \in EntriesFor("r1", n) :
                        B64Decode(resp["r1"].updates[k]).ops
                            = EntryFrom("r1", k, RowOf(crdt[n]).ydoc_state.ops)
        /\ resp["r1"].metadata =
              {RowOf(notes[n]) :
                  n \in {x \in NoteIds :
                            /\ notes[x] # {}
                            /\ \/ ClientStamp(breq["r1"].metadata, x) = -1
                               \/ RowOf(notes[x]).updated_at > ClientStamp(breq["r1"].metadata, x)}}

\* a request pushed an update onto an existing document and metadata rows of its own; the
\* answer holds the pushed operation in a diff and the row its own upsert wrote
C15_OwnWritesAnswered ==
    /\ pc["r1"] = "idle" /\ resp["r1"].status = 200
    /\ Lower("n1") \in DOMAIN breq["r1"].updates /\ Lower("n1") \in DOMAIN breq["r1"].state_vectors
    /\ breq["r1"].updates[Lower("n1")] = B64Encode(UpdC)
    /\ resp["r1"].before.docs["n1"] # {}
    /\ Lower("n1") \in DOMAIN resp["r1"].updates
    /\ <<"c2", 1>> \in B64Decode(resp["r1"].updates[Lower("n1")]).ops
    /\ Len(breq["r1"].metadata) = 2
    /\ resp["r1"].before.rows["n1"] = {}
    /\ Tombstone("n1", 2) \in resp["r1"].metadata

\* the updates map of the request r is serving (or served last) has an entry whose note
\* id does not parse or whose value is not base64
MalformedPush(r) ==
    \E k \in DOMAIN breq[r].updates : ~ParseOk(k) \/ ~B64Ok(breq[r].updates[k])

\* C16 (SpecSyncErr): a batch request in which a pushed update cannot be processed (bad
\* note id, bad base64, a failed read or a failed upsert) ends with an error status, and a
\* request that ends with an error status leaves the stored documents and notes rows of
\* every note as they were when it came in, updates it pushed before the failure included.
C16_PushFailureRollsBack ==
    (pc["r1"] = "idle" /\ resp["r1"].status # 0) =>
        /\ MalformedPush("r1") => resp["r1"].status \in {400, 500}
        /\ resp["r1"].status # 200 =>
              /\ resp["r1"].after = resp["r1"].before
              /\ Stored(crdt, notes) = resp["r1"].before

\* a request pushed an update for n1, published it, and then failed on its next entry
C16_FailedAfterPush ==
    /\ pc["r1"] = "idle" /\ resp["r1"].status = 400
    /\ MalformedPush("r1")
    /\ crdt["n1"] = {}
    /\ \E i \in DOMAIN hubLog : hubLog[i].from = "r1" /\ hubLog[i].note_id = Lower("n1")

\* C17 (SpecSyncErr), as the claim states it: a batch request in which a metadata upsert
\* failed still succeeds, and the updates it pushed are persisted.
C17_MetadataFailureTolerated ==
    (pc["r1"] = "idle" /\ resp["r1"].failed = "b_meta") =>
        /\ resp["r1"].status = 200
        /\ \A n \in NoteIds :
              PushedBy("r1", n) # {} =>
                  crdt[n] # {} /\ PushedBy("r1", n) \subseteq RowOf(crdt[n]).ydoc_state.ops

\* a request that pushed an update and carried metadata rows of two notes has ended in
\* its metadata loop
C17_MetadataFailed ==
    /\ pc["r1"] = "idle" /\ resp["r1"].failed = "b_meta"
    /\ PushedBy("r1", "n1") # {}
    /\ Len(breq["r1"].metadata) = 2
    /\ \E i \in DOMAIN hubLog : hubLog[i].from = "r1"

\* the state_vectors map of the request r is serving (or served last) has an entry whose
\* note id does not parse or whose value is not base64
MalformedVector(r) ==
    \E k \in DOMAIN breq[r].state_vectors : ~ParseOk(k) \/ ~B64Ok(breq[r].state_vectors[k])

\* C18 (SpecSyncErr), as the claim states it: a batch request with a malformed note id or
\* base64 value in its updates map or in its state_vectors map is answered with 400 (when
\* no database call failed) and leaves the stored documents and notes rows unchanged.
C18_MalformedIs400 ==
    (/\ pc["r1"] = "idle" /\ resp["r1"].status \notin {0, 500}
     /\ MalformedPush("r1") \/ MalformedVector("r1")) =>
        /\ resp["r1"].status = 400
        /\ Stored(crdt, notes) = resp["r1"].before

\* a request with a malformed state_vectors entry has been answered, and the update it
\* pushed is stored
C18_MalformedVectorAnswered ==
    /\ pc["r1"] = "idle" /\ resp["r1"].status = 200
    /\ MalformedVector("r1") /\ ~MalformedPush("r1")
    /\ PushedBy("r1", "n1") # {}
    /\ resp["r1"].before.docs["n1"] = {} /\ crdt["n1"] # {}

\* the keys of the request's state_vectors map that name note n
VectorKeys(r, n) == {k \in DOMAIN breq[r].state_vectors : ParseOk(k) /\ ParseUuid(k) = n}

\* C19 (SpecSyncErr), as the claim states it: the updates map of a sync response has an
\* entry for every note with a stored document (the diff against the client's vector when
\* the note is a key of state_vectors, the full snapshot when it is not) and no entry for
\* a note without a stored document.
C19_EntryPerDocument ==
    (pc["r1"] = "idle" /\ resp["r1"].status = 200) =>
        \A n \in NoteIds :
            IF crdt[n] = {}
            THEN EntriesFor("r1", n) = {}
            ELSE /\ EntriesFor("r1", n) # {}
                 /\ \A k \in EntriesFor("r1", n) :
                       IF VectorKeys("r1", n) = {}
                       THEN B64Decode(resp["r1"].updates[k]).ops = RowOf(crdt[n]).ydoc_state.ops
                       ELSE /\ k \in VectorKeys("r1", n)
                            /\ B64Ok(breq["r1"].state_vectors[k])
                            /\ DecodesAsSV(B64Decode(breq["r1"].state_vectors[k]))
                            /\ B64Decode(resp["r1"].updates[k]).ops
                                  = EncodeDiff(RowOf(crdt[n]).ydoc_state.ops,
                                               B64Decode(breq["r1"].state_vectors[k]).sv)

\* a request that named n1 in state_vectors with bytes that are no state vector has been
\* answered without any entry for n1, which has a stored document
C19_DocumentLeftOut ==
    /\ pc["r1"] = "idle" /\ resp["r1"].status = 200
    /\ crdt["n1"] # {} /\ RowOf(crdt["n1"]).ydoc_state.ops # {}
    /\ breq["r1"].state_vectors = [k \in {Lower("n1")} |-> B64Encode(JunkBlob)]
    /\ EntriesFor("r1", "n1") = {}

\* the positions of the request's metadata list that carry note n
SentAt(r, n) == {i \in DOMAIN breq[r].metadata : breq[r].metadata[i].id = n}

UpdateFaulted(s) ==
    /\ pc[s] = "upd_commit"
    /\ txn[s].aborted \/ ~DecodesAsUpdate(B64Decode(job[s].payload))

\* C21 (Spec), as the claim states it: a session whose Update frame carried a payload that
\* does not decode, or hit a storage failure, is closed when the handler of that frame
\* returns, and its writer task is stopped.
C21_FailureCloses ==
    [][\A s \in Sessions :
          (UpdateFaulted(s) /\ pc'[s] = "idle")
          => sstate'[s] = "closed" /\ wpc'[s] = "done"]_vars

\* a session whose merge was rolled back after a storage failure is handling its next
\* Update frame
C21_NextFrameHandled ==
    \E s \in Sessions :
        /\ sstate[s] = "active" /\ pc[s] = "upd_select"
        /\ \E i \in DOMAIN hubLog :
              hubLog[i].type = "update" /\ hubLog[i].from = s /\ ~hubLog[i].committed

\* C22 (Spec): a text frame that is no known message changes neither the database nor any
\* subscription set nor the hub, and leaves the session active, its reader ready for the
\* next frame and its writer task as it was.
C22_BadFrameDropped ==
    [][\A s \in Sessions :
          (last' # last /\ last'.op = "bad_frame" /\ last'.id = s)
          => /\ crdt' = crdt /\ notes' = notes /\ folders' = folders
             /\ subs' = subs /\ hubLog' = hubLog
             /\ sstate'[s] = "active" /\ pc'[s] = "idle" /\ wpc' = wpc]_vars

\* session A, whose last frame but one was no known message, is merging the Update frame
\* that followed it
C22_NextFrameMerged ==
    /\ last.op = "bad_frame" /\ last.id = "A"
    /\ sstate["A"] = "active" /\ pc["A"] = "upd_upsert"
    /\ txn["A"].now > last.at

\* C23 (SpecHub), as the claim states it: once the writer task of a session has ended on a
\* failed socket write, the reader of that session starts no further frame: it begins no
\* merge and publishes nothing.
C23_SendErrorEndsSession ==
    [][\A s \in Sessions :
          (sstate[s] = "active" /\ wpc[s] = "done" /\ pc[s] = "idle")
          => /\ pc'[s] = "idle"
             /\ Len(hubLog') > Len(hubLog) => hubLog'[Len(hubLog')].from # s]_vars

\* session A began the merge of an Update frame after its writer task had ended on a
\* failed socket write
C23_MergeAfterSendError ==
    /\ last.op = "send_failed" /\ last.id = "A"
    /\ sstate["A"] = "active" /\ wpc["A"] = "done"
    /\ pc["A"] = "upd_select" /\ txn["A"].now >= last.at

(***************************************************************************)
(* C24: NoteMetadata messages reach every active session.                  *)
(***************************************************************************)
\* session s, connected before message i was published, has kept up with the hub since:
\* its receiver has not lagged and message i is still waiting in it
KeptUp(s, i) ==
    /\ sstate[s] = "active" /\ rx[s] < i
    /\ ~Lagged(s) /\ wpc[s] # "resp_only"

\* C24 (FairHub), as the claim states it: a NoteMetadata message published while s was
\* ACTIVE with a receiver that has not lagged is eventually forwarded to s, whatever s
\* is subscribed to, unless s closes, its receiver lags afterwards, or the socket write
\* of this very message fails.
C24_MetadataForwarded ==
    \A s \in Sessions, i \in 1..MaxHubTxns :
        (Len(hubLog) >= i /\ hubLog[i].type = "note_metadata" /\ KeptUp(s, i))
        ~> \/ i \in out[s]
           \/ sstate[s] # "active"
           \/ Lagged(s) \/ wpc[s] = "resp_only"
           \/ (wpc[s] = "done" /\ rx[s] = i)

\* B is ACTIVE and has kept up, its writer task has ended on a failed socket write, and a
\* NoteMetadata message published afterwards waits in its receiver
C24_MetadataWaitsForEndedWriter ==
    \E i \in DOMAIN hubLog :
        /\ hubLog[i].type = "note_metadata" /\ KeptUp("B", i)
        /\ wpc["B"] = "done" /\ last.op = "send_failed" /\ last.id = "B"
        /\ i \notin out["B"]

(***************************************************************************)
(* C25: the hub never waits for a receiver and drops the oldest messages   *)
(* of a receiver that fell behind.                                         *)
(***************************************************************************)
\* the number of hub messages session s has not taken yet
Outstanding(s) == Len(hubLog) - rx[s]

\* a session that can publish a NoteMetadata now: open, between two frames
CanPublish(s) == sstate[s] = "active" /\ pc[s] = "idle" /\ clock <= MaxHubTxns

\* a step in which the writer task of s takes from its receiver
Takes(s) == sstate[s] = "active" /\ sstate'[s] = "active" /\ rx'[s] # rx[s]

\* C25 (SpecHub): publishing is possible whatever the receivers have left outstanding and
\* changes no receiver; a receiver with more than HubCapacity messages outstanding
\* skips its oldest ones, down to the newest HubCapacity, handing none of them to the
\* socket, and a receiver with at most
\* HubCapacity outstanding takes the very next message; an open session has been sent
\* nothing but messages its receiver took.
C25_PublishNeverWaits ==
    /\ [](CanPublish("A") => ENABLED WsNoteMetadata("A", MetaJson(MetaOf("n1", "t1", 1)), TRUE))
    /\ [][(hubLog' # hubLog) => (Len(hubLog') = Len(hubLog) + 1 /\ rx' = rx /\ out' = out)]_vars
    /\ [][\A s \in Sessions :
            Takes(s) => IF Outstanding(s) > HubCapacity
                        THEN rx'[s] = Len(hubLog) - HubCapacity /\ wpc'[s] # "send"
                        ELSE rx'[s] = rx[s] + 1]_vars
    /\ [](\A s \in Sessions : sstate[s] = "active" => \A i \in out[s] : i <= rx[s])

\* two messages were published while B took none; B then skipped the first, and A, which
\* kept up, was sent both
C25_SlowLosesOldest ==
    /\ Len(hubLog) = 2 /\ HubCapacity = 1
    /\ sstate["B"] = "active" /\ rx["B"] = 1 /\ wpc["B"] = "resp_only" /\ out["B"] = {}
    /\ sstate["A"] = "active" /\ out["A"] = {1, 2}

(***************************************************************************)
(* C26: the subscription set follows the session's own frames.             *)
(***************************************************************************)
\* the subscription set of every open session is the set of note ids it sent Subscribe
\* for and has not since sent Unsubscribe for (empty before its first frame)
SubsAsSent == \A s \in Sessions : sstate[s] = "active" => subs[s] = sublog[s].want

\* message i is an Update for note n published after the hub had k messages
PublishedAfter(i, n, k) == k # NoFrame /\ i > k /\ IsUpdateFor(i, n)

\* C26 (SpecSubs), as the claim states it: the subscription set of an open session is
\* the set of note ids it sent Subscribe for and has not since sent Unsubscribe for, and
\* an Update for N published after the session's Unsubscribe{N} was processed, while N
\* was not in its subscription set, is never forwarded to it.
C26_NeverSentAfterUnsubscribe ==
    /\ SubsAsSent
    /\ \A s \in Sessions, n \in NoteIds : \A i \in DOMAIN hubLog :
          (PublishedAfter(i, n, sublog[s].first[n]) /\ s \notin hubLog[i].subscribed)
          => i \notin out[s]

\* C26 (SpecSubs), amended: the same, for an Update for N published after the session's
\* Unsubscribe{N} was processed and forwarded before the session sends Subscribe{N}
\* again.
C26_NotSentWhileUnsubscribed ==
    /\ SubsAsSent
    /\ \A s \in Sessions, n \in NoteIds : \A i \in DOMAIN hubLog :
          PublishedAfter(i, n, sublog[s].open[n]) => i \notin out[s]

\* B subscribed to n1 and unsubscribed again, both frames of A left B's set alone, and
\* B's writer task has taken and dropped an Update for n1 published afterwards
C26_DroppedAfterUnsubscribe ==
    \E i \in DOMAIN hubLog :
        /\ PublishedAfter(i, "n1", sublog["B"].open["n1"])
        /\ sstate["B"] = "active" /\ rx["B"] >= i /\ wpc["B"] = "select" /\ i \notin out["B"]
        /\ "n1" \in subs["A"] /\ subs["B"] = {}

(***************************************************************************)
(* C27: the stored state vector is the vector of the stored document.      *)
(***************************************************************************)
\* the operations the state vector sv accounts for are exactly ops: as many of every
\* client as the vector says, and none of a client it leaves out
Summarises(sv, ops) ==
    /\ sv.kind = "sv"
    /\ \A c \in ClientIds : sv.sv[c] = Cardinality({o \in ops : o[1] = c})

\* C27 (SpecSeed): in every stored document row the state_vector summarises exactly the
\* operations of the row's ydoc_state, whatever sequence of streamed merges, batch merges
\* and seedings by POST /notes produced the row.
C27_VectorOfStoredDocument ==
    \A n \in NoteIds :
        crdt[n] # {} =>
            /\ RowOf(crdt[n]).ydoc_state.kind = "upd"
            /\ Summarises(RowOf(crdt[n]).state_vector, RowOf(crdt[n]).ydoc_state.ops)

\* the document of n1 was seeded by POST /notes and then merged into by a streamed Update
\* and by a sync request
C27_SeededAndMerged ==
    /\ crdt["n1"] # {}
    /\ RowOf(crdt["n1"]).ydoc_state.ops = {<<"srv", 1>>, <<"c1", 1>>, <<"c2", 1>>}
    /\ RowOf(crdt["n1"]).state_vector.sv = [c \in ClientIds |-> 1]

(***************************************************************************)
(* C30: POST /notes leaves an existing document row alone.                 *)
(***************************************************************************)
\* a step in which save_note upserts the posted note and checks for a document row
SaveNoteChecks == pc["r2"] = "idle" /\ last'.op = "save_note" /\ last'.at = clock

\* a step in which save_note runs its seeding statement
SaveNoteInserts == pc["r2"] = "n_seed" /\ pc'["r2"] = "idle"

\* C30 (SpecSeed): no step of POST /notes changes a document row that exists, also when
\* a merge for the note committed between its check and its insert; it goes on to the
\* insert only for a note with non-empty content that is no canvas note and has no
\* document row, and the insert creates nothing but the seeded row of that note.
C30_SaveNoteKeepsDocument ==
    [][/\ SaveNoteChecks =>
            /\ crdt' = crdt
            /\ pc'["r2"] = "n_seed" =>
                  /\ last'.status = 200
                  /\ RowOf(notes'[last'.id]).content # ""
                  /\ ~RowOf(notes'[last'.id]).is_canvas
                  /\ crdt[last'.id] = {}
       /\ SaveNoteInserts =>
            \A n \in NoteIds :
                crdt'[n] # crdt[n] =>
                    /\ crdt[n] = {} /\ n = job["r2"].note
                    /\ RowOf(crdt'[n]).ydoc_state = B64Decode(job["r2"].payload)]_vars

\* POST /notes found no document row for n1, A's merge committed before its insert, and
\* the insert left the merged row as it was
C30_MergeWonTheRace ==
    /\ last.op = "seed_note" /\ last.id = "n1" /\ last.status = 0
    /\ crdt["n1"] # {} /\ RowOf(crdt["n1"]).ydoc_state.ops = {<<"c1", 1>>}

(***************************************************************************)
(* C28: updated_at of a document row over the committed merges.            *)
(***************************************************************************)
\* C28 (Spec), as the claim states it: no committed merge, streamed or batched, lowers
\* the updated_at of a document row.
C28_StampNeverDecreases ==
    [][\A n \in NoteIds :
          (crdt[n] # {} /\ crdt'[n] # {})
          => RowOf(crdt'[n]).updated_at >= RowOf(crdt[n]).updated_at]_vars

\* the row of n1 holds the merges of both sessions and carries a stamp older than the
\* start of a transaction whose merge it contains: the transaction that began first
\* committed last
C28_EarlierStartCommittedLast ==
    /\ crdt["n1"] # {}
    /\ {<<"c1", 1>>, <<"c2", 1>>} \subseteq acked["n1"]
    /\ RowOf(crdt["n1"]).updated_at = 1
    /\ clock > 2

(***************************************************************************)
(* C29: the parent_id relation of the folders.                             *)
(***************************************************************************)
\* folder f is its own ancestor: it is among the descendants of its children
OwnAncestor(f) == folders[f] # {} /\ f \in Descendants(Children(f))

\* C29 (SpecFolders), as the claim states it: no folder is its own ancestor.
C29_ParentsAcyclic == \A f \in FolderIds : ~OwnAncestor(f)

\* both folders exist, none deleted, and each is the parent of the other: f1 was posted
\* under f2 and f2 under f1
C29_TwoFolderCycle ==
    /\ folders["f1"] # {} /\ folders["f2"] # {}
    /\ RowOf(folders["f1"]).parent_id = "f2" /\ RowOf(folders["f2"]).parent_id = "f1"
    /\ ~RowOf(folders["f1"]).is_deleted /\ ~RowOf(folders["f2"]).is_deleted
    /\ last.op = "save_folder" /\ last.status = 200

(***************************************************************************)
(* C31: GET /notes/:id of a deleted note.                                  *)
(***************************************************************************)
\* a step in which GET /notes/:id is answered for note n
GetsNote(n) == last'.op = "get_note" /\ last'.at = clock /\ last'.id = n

\* C31 (SpecFolders), as the claim states it: GET /notes/:id of a note whose stored
\* is_deleted is true is answered 404 when the read succeeds, as for a note that is not
\* stored.
C31_DeletedNoteIs404 ==
    [][\A n \in NoteIds :
          (GetsNote(n) /\ last'.status # 500 /\ notes[n] # {} /\ RowOf(notes[n]).is_deleted)
          => last'.status = 404]_vars

\* n1 was deleted and the GET that followed was answered 200
C31_DeletedNoteReturned ==
    /\ last.op = "get_note" /\ last.id = "n1" /\ last.status = 200
    /\ notes["n1"] # {} /\ RowOf(notes["n1"]).is_deleted

(***************************************************************************)
(* C32: the pulled list leaves out what the request pushed.                *)
(***************************************************************************)
\* the ids of the rows a response returned
PulledIds(rows) == {r.id : r \in rows}

\* C32 (SpecPull): no response of /sync or /sync/folders returns a row whose id is in the
\* pushed list of its request, with or without since and known_folder_ids.
C32_PulledExcludesPushed ==
    /\ PulledIds(legacy.pulledNotes) \cap PushedIds(legacy.notes) = {}
    /\ PulledIds(legacy.pulledFolders) \cap PushedIds(legacy.folders) = {}

\* a /sync/folders request with since and known_folder_ids pushed f2 and was returned f1,
\* which it did not know, while f2, as new as f1, was left out
C32_OnlyTheOtherFolderPulled ==
    /\ legacy.op = "sync_folders" /\ legacy.status = 200
    /\ legacy.since = 1 /\ legacy.known = {"f1"}
    /\ PushedIds(legacy.folders) = {"f2"}
    /\ folders["f1"] # {} /\ RowOf(folders["f1"]).updated_at = 2
    /\ folders["f2"] # {} /\ RowOf(folders["f2"]).updated_at = 2
    /\ PulledIds(legacy.pulledFolders) = {"f1"}

(***************************************************************************)
(* C33: last-writer-wins of the pushed rows.                               *)
(***************************************************************************)
\* a step in which a /sync or /sync/folders request pushing exactly one row is answered 200
PushesOne(op) ==
    /\ legacy'.op = op /\ legacy'.status = 200 /\ legacy' # legacy
    /\ Len(legacy'.notes) + Len(legacy'.folders) = 1

\* C33 (SpecPull), as the claim states it: a pushed row that is not newer than the stored
\* one leaves the stored row as it is, a newer one replaces it, and a row with an id that
\* is not stored is inserted as pushed.
C33_PushedRowReplaces ==
    [][/\ PushesOne("sync_notes") =>
            LET row == legacy'.notes[1] IN
            IF notes[row.id] # {} /\ row.updated_at <= RowOf(notes[row.id]).updated_at
            THEN notes'[row.id] = notes[row.id]
            ELSE notes'[row.id] = {row}
       /\ PushesOne("sync_folders") =>
            LET e == legacy'.folders[1] IN
            IF folders[e.id] # {} /\ e.updated_at <= RowOf(folders[e.id]).updated_at
            THEN folders'[e.id] = folders[e.id]
            ELSE EntryOf(folders', e.id) = e]_vars

\* C33 (SpecPull), amended: the same, where the newer pushed folder replaces name,
\* parent_id, updated_at and is_deleted of the stored folder and leaves its created_at.
C33_PushedRowReplacesButCreatedAt ==
    [][/\ PushesOne("sync_notes") =>
            LET row == legacy'.notes[1] IN
            IF notes[row.id] # {} /\ row.updated_at <= RowOf(notes[row.id]).updated_at
            THEN notes'[row.id] = notes[row.id]
            ELSE notes'[row.id] = {row}
       /\ PushesOne("sync_folders") =>
            LET e == legacy'.folders[1] IN
            IF folders[e.id] # {} /\ e.updated_at <= RowOf(folders[e.id]).updated_at
            THEN folders'[e.id] = folders[e.id]
            ELSE IF folders[e.id] = {}
            THEN EntryOf(folders', e.id) = e
            ELSE EntryOf(folders', e.id) = [e EXCEPT !.created_at = RowOf(folders[e.id]).created_at]]_vars

\* f1 was stored with stamp 1 and a request pushed it with stamp 2 and another created_at:
\* parent_id, updated_at and is_deleted are the pushed ones
C33_NewerFolderPushed ==
    /\ legacy.op = "sync_folders" /\ legacy.status = 200 /\ Len(legacy.folders) = 1
    /\ legacy.folders[1].id = "f1" /\ legacy.folders[1].updated_at = 2
    /\ legacy.folders[1].created_at = 2 /\ legacy.folders[1].is_deleted
    /\ folders["f1"] # {} /\ RowOf(folders["f1"]).updated_at = 2
    /\ RowOf(folders["f1"]).is_deleted /\ RowOf(folders["f1"]).created_at = 1

(***************************************************************************)
(* C39: a pushed row that lost against the stored one.                     *)
(***************************************************************************)
\* the request behind the last response pushed row and lost: the stored row of its id is
\* strictly newer than it and than the request's since
LostNote(row) ==
    /\ notes[row.id] # {} /\ RowOf(notes[row.id]).updated_at > row.updated_at
    /\ legacy.since = NoSince \/ RowOf(notes[row.id]).updated_at > legacy.since

LostFolder(e) ==
    /\ folders[e.id] # {} /\ RowOf(folders[e.id]).updated_at > e.updated_at
    /\ legacy.since = NoSince \/ RowOf(folders[e.id]).updated_at > legacy.since

\* C39 (SpecPull), as the claim states it: the stored row of every pushed row that lost
\* last-writer-wins is in pulled of the same response.
C39_LoserGetsStoredRow ==
    legacy.status = 200 =>
        /\ \A i \in DOMAIN legacy.notes :
              LostNote(legacy.notes[i]) => RowOf(notes[legacy.notes[i].id]) \in legacy.pulledNotes
        /\ \A i \in DOMAIN legacy.folders :
              LostFolder(legacy.folders[i])
              => EntryOf(folders, legacy.folders[i].id) \in legacy.pulledFolders

\* n1 is stored with stamp 2; a /sync request without since pushed n1 with stamp 1, lost,
\* and was answered 200 with nothing pulled
C39_LoserGetsNothing ==
    /\ legacy.op = "sync_notes" /\ legacy.status = 200 /\ legacy.since = NoSince
    /\ Len(legacy.notes) = 1 /\ legacy.notes[1].id = "n1" /\ legacy.notes[1].updated_at = 1
    /\ notes["n1"] # {} /\ RowOf(notes["n1"]).updated_at = 2
    /\ legacy.pulledNotes = {}

\* C39 (SpecPull), amended: a pushed row that loses last-writer-wins leaves the stored
\* row as it is, and the stored row is not in pulled of the same response, whatever the
\* request's since.
C39_LoserLeftOut ==
    [][/\ PushesOne("sync_notes") =>
            LET row == legacy'.notes[1] IN
            (notes[row.id] # {} /\ RowOf(notes[row.id]).updated_at > row.updated_at)
            => /\ notes'[row.id] = notes[row.id]
               /\ row.id \notin PulledIds(legacy'.pulledNotes)
       /\ PushesOne("sync_folders") =>
            LET e == legacy'.folders[1] IN
            (folders[e.id] # {} /\ RowOf(folders[e.id]).updated_at > e.updated_at)
            => /\ folders'[e.id] = folders[e.id]
               /\ e.id \notin PulledIds(legacy'.pulledFolders)]_vars

(***************************************************************************)
(* C40: live folders under deleted folders.                                *)
(***************************************************************************)
\* folder f is stored and not deleted, and a folder it descends from is deleted
LiveUnderDeleted(f) ==
    /\ folders[f] # {} /\ ~RowOf(folders[f]).is_deleted
    /\ \E g \in FolderIds :
          /\ folders[g] # {} /\ RowOf(folders[g]).is_deleted
          /\ f \in Descendants(Children(g))

\* C40 (SpecFolders), as the claim states it: no folder that is not deleted has a deleted
\* ancestor.
C40_NoLiveFolderUnderDeleted == \A f \in FolderIds : ~LiveUnderDeleted(f)

\* f1 was deleted, and the POST /folders that followed stored f2 under it, not deleted
C40_PostedUnderDeleted ==
    /\ last.op = "save_folder" /\ last.id = "f2" /\ last.status = 200
    /\ folders["f1"] # {} /\ RowOf(folders["f1"]).is_deleted
    /\ RowOf(folders["f1"]).updated_at < RowOf(folders["f2"]).updated_at
    /\ RowOf(folders["f2"]).parent_id = "f1" /\ ~RowOf(folders["f2"]).is_deleted

(***************************************************************************)
(* C34: POST /notes and DELETE /notes/:id publish the stored row.          *)
(***************************************************************************)
\* a step in which POST /notes (op = "save_note") or DELETE /notes/:id is answered
AnswersNote(op) == last'.op = op /\ last'.at = clock

\* the hub has received exactly one more message: a NoteMetadata carrying row
PublishesRow(row) ==
    /\ Len(hubLog') = Len(hubLog) + 1
    /\ SubSeq(hubLog', 1, Len(hubLog)) = hubLog
    /\ hubLog'[Len(hubLog')].type = "note_metadata"
    /\ hubLog'[Len(hubLog')].meta = MetaJson(row)

\* C34 (SpecFolders): a POST /notes or DELETE /notes/:id answered 200 publishes exactly
\* one NoteMetadata, carrying the row the request stored (is_deleted true for DELETE);
\* one answered 400, 404 or 500 publishes nothing.
C34_OneMetadataPerWrite ==
    [][\A op \in {"save_note", "delete_note"} :
          AnswersNote(op) =>
             IF last'.status = 200
             THEN /\ notes'[last'.id] # {}
                  /\ PublishesRow(RowOf(notes'[last'.id]))
                  /\ RowOf(notes'[last'.id]).updated_at = clock
                  /\ op = "delete_note" => RowOf(notes'[last'.id]).is_deleted
             ELSE hubLog' = hubLog /\ notes' = notes]_vars

\* n1 was posted and then deleted: the hub holds two messages, the posted row and the
\* same note with is_deleted true, and a DELETE of an id that is no UUID added none
C34_PostedThenDeleted ==
    /\ last.op = "delete_note" /\ last.status = 400
    /\ Len(hubLog) = 2
    /\ ~hubLog[1].meta.meta.is_deleted /\ hubLog[2].meta.meta.is_deleted
    /\ notes["n1"] # {} /\ hubLog[2].meta = MetaJson(RowOf(notes["n1"]))

(***************************************************************************)
(* C35: apply_crdt_update of the client-side store.                        *)
(***************************************************************************)
\* a step in which apply_crdt_update returns Ok for note n
AppliesTo(n) ==
    last'.op = "apply_crdt_update" /\ last'.at = clock /\ last'.id = n /\ last'.status = 200

\* C35 (SpecClient), as the claim states it: after apply_crdt_update the stored
\* ydoc_state holds the operations the row held before (and those of the update), and
\* the stored state_vector is the vector of that ydoc_state.
C35_StoreMergesUpdate ==
    [][\A n \in NoteIds :
          AppliesTo(n) =>
              /\ store'[n] # {}
              /\ store[n] # {} =>
                     RowOf(store[n]).ydoc_state.ops \subseteq RowOf(store'[n]).ydoc_state.ops
              /\ Summarises(RowOf(store'[n]).state_vector, RowOf(store'[n]).ydoc_state.ops)]_vars

\* the store received c1's update for n1 and then c2's: the row holds c2's operation
\* alone, and its state_vector column still holds the bytes of c1's update
C35_UpdateReplacedState ==
    /\ last.op = "apply_crdt_update" /\ last.id = "n1" /\ last.status = 200
    /\ store["n1"] # {}
    /\ RowOf(store["n1"]).ydoc_state = UpdC
    /\ RowOf(store["n1"]).state_vector = UpdA

(***************************************************************************)
(* C36: the stored document of a note only grows.                          *)
(***************************************************************************)
\* C36 (Spec), as the claim states it: a committed write to a note's document row keeps
\* every operation the row held before it, when the blob it held was decodable.
C36_DocumentNeverShrinks ==
    [][\A n \in NoteIds :
          (crdt[n] # {} /\ DecodesAsUpdate(RowOf(crdt[n]).ydoc_state)) =>
              /\ crdt'[n] # {}
              /\ RowOf(crdt[n]).ydoc_state.ops \subseteq OpsOf(RowOf(crdt'[n]).ydoc_state)]_vars

\* c1's operation was committed to n1's row, and the row that is stored now is a
\* decodable document without it
C36_CommittedOperationGone ==
    /\ <<"c1", 1>> \in acked["n1"]
    /\ crdt["n1"] # {}
    /\ DecodesAsUpdate(RowOf(crdt["n1"]).ydoc_state)
    /\ <<"c1", 1>> \notin RowOf(crdt["n1"]).ydoc_state.ops

(***************************************************************************)
(* C37: the writer task after its receiver lagged.                         *)
(***************************************************************************)
\* the receiver of s has returned Err(Lagged), and message i was published after that:
\* the receiver stands at the oldest message kept at that time, HubCapacity before the
\* newest of then
PublishedAfterLag(s, i) ==
    /\ sstate[s] = "active" /\ wpc[s] = "resp_only"
    /\ i <= Len(hubLog) /\ i > rx[s] + HubCapacity

\* C37 (FairLag), as the claim states it: a message published after the receiver of s
\* lagged, and passing the filter, is eventually sent to s with no frame from s and no
\* response to s in between, unless the socket write of a message fails.
C37_ForwardsAfterLag ==
    \A s \in Sessions, i \in 1..MaxLagTxns :
        (PublishedAfterLag(s, i) /\ ShouldSend(s, hubLog[i]))
        ~> (i \in out[s] \/ wpc[s] = "done")

\* B's receiver lagged on the first two messages; the third, published afterwards, was
\* sent to A and waits in B's receiver, with B's writer task on its response channel
C37_WriterWaitsForResponse ==
    /\ Len(hubLog) = 3 /\ PublishedAfterLag("B", 3) /\ ShouldSend("B", hubLog[3])
    /\ respQ["B"] = <<>> /\ out["B"] = {}
    /\ 3 \in out["A"]

(***************************************************************************)
(* C38: two batch requests pushing for the same two notes.                 *)
(***************************************************************************)
\* C38 (SpecCross), as the claim states it: with every pushed id and payload valid and
\* the database working, a batch request that pushes for two notes another request
\* pushes for too is answered 200, in whatever order either takes its notes.
C38_BothSucceed ==
    \A r \in Batches : (pc[r] = "idle" /\ resp[r] # NoResp) => resp[r].status = 200

\* r1 took n1 first and r2 took n2 first; r1's upsert of n2 was failed as a deadlock,
\* its request is answered 500 and its lock on n1 is released, and r2 is still in its
\* upsert of n1
C38_AbortedByTheOther ==
    /\ pc["r1"] = "idle" /\ resp["r1"].status = 500 /\ resp["r1"].failed = "b_upsert"
    /\ pc["r2"] = "b_upsert" /\ job["r2"].note = "n1"
    /\ rowLock["n2"] = {"r2"} /\ rowLock["n1"] = {}

====
